---------------------------- MODULE Spec2Model ----------------------------
(***************************************************************************)
(* Model of the CloudWatch-Logs-to-Elasticsearch pipeline of arthur-tools  *)
(* (src/cloudwatch_logs/cw_logs_to_es): the event parser                   *)
(* CloudWatchLogsParser, and send_to_es which feeds its actions to the     *)
(* bulk call of ElasticsearchWrapper.                                      *)
(*                                                                         *)
(* Text is modelled as a sequence of one-character strings, so that the    *)
(* prefix tests, splits, replacements and slices of the parser are         *)
(* computed as the code computes them.  A field value of a record is       *)
(*   [t |-> tag, s |-> text, n |-> numbers]                                *)
(* with tag "str" (text in s), "json" (a parsed JSON value that is not a   *)
(* string, identified by its source text s), "int" (n = <<value>>),        *)
(* "float" (n = <<mantissa, decimals>>) or "datetime"                      *)
(* (n = <<year, month, day, hour, minute, second, millisecond>>).          *)
(* A dict is a function from keys (texts) to field values.                 *)
(***************************************************************************)
EXTENDS Integers, Sequences, FiniteSets, TLC

----------------------------------------------------------------------------
(* Text helpers (Python str operations used by the parser)                 *)

At(s, i) == IF i >= 1 /\ i <= Len(s) THEN s[i] ELSE ""

Slice(s, a, b) == IF a > b THEN <<>> ELSE SubSeq(s, a, b)

\* str.startswith(prefix)
StartsWith(s, p) == Len(s) >= Len(p) /\ SubSeq(s, 1, Len(p)) = p

\* s has sep at position i
MatchAt(s, sep, i) == i + Len(sep) - 1 <= Len(s) /\ SubSeq(s, i, i + Len(sep) - 1) = sep

RECURSIVE FindFrom(_, _, _)
\* str.find(sep, i): first position >= i where sep occurs, 0 when there is none
FindFrom(s, sep, i) ==
    IF i + Len(sep) - 1 > Len(s) THEN 0
    ELSE IF MatchAt(s, sep, i) THEN i
    ELSE FindFrom(s, sep, i + 1)

RECURSIVE Replace(_, _, _)
\* str.replace(old, new), old not empty: left to right, non-overlapping
Replace(s, old, new) ==
    LET p == FindFrom(s, old, 1) IN
    IF p = 0 THEN s
    ELSE Slice(s, 1, p - 1) \o new \o Replace(Slice(s, p + Len(old), Len(s)), old, new)

RECURSIVE Split(_, _)
\* str.split(sep), sep not empty: every piece, empty ones included
Split(s, sep) ==
    LET p == FindFrom(s, sep, 1) IN
    IF p = 0 THEN <<s>>
    ELSE <<Slice(s, 1, p - 1)>> \o Split(Slice(s, p + Len(sep), Len(s)), sep)

\* the characters str.strip() removes (those of the modelled alphabet)
Whitespace == {" ", "\t", "\n", "\r"}

RECURSIVE LStrip(_)
LStrip(s) == IF s # <<>> /\ s[1] \in Whitespace THEN LStrip(Tail(s)) ELSE s

RECURSIVE RStrip(_)
RStrip(s) ==
    IF s # <<>> /\ s[Len(s)] \in Whitespace THEN RStrip(SubSeq(s, 1, Len(s) - 1)) ELSE s

\* str.strip()
Strip(s) == RStrip(LStrip(s))

\* value[1:]: the unit suffix is left in place
SliceFrom1(s) == Slice(s, 2, Len(s))

\* value[1:-3]
Slice1Minus3(s) == Slice(s, 2, Len(s) - 3)

Digits == {"0", "1", "2", "3", "4", "5", "6", "7", "8", "9"}

DigitVal(c) ==
    CASE c = "0" -> 0 [] c = "1" -> 1 [] c = "2" -> 2 [] c = "3" -> 3 [] c = "4" -> 4
      [] c = "5" -> 5 [] c = "6" -> 6 [] c = "7" -> 7 [] c = "8" -> 8 [] c = "9" -> 9

DigitChar(d) == <<"0", "1", "2", "3", "4", "5", "6", "7", "8", "9">>[d + 1]

RECURSIVE SkipDigits(_, _)
SkipDigits(s, i) == IF At(s, i) \in Digits THEN SkipDigits(s, i + 1) ELSE i

Str(text) == [t |-> "str", s |-> text, n |-> <<>>]

\* dict.update for two dicts: the keys of p replace those of d
DictUpdate(d, p) ==
    [k \in DOMAIN d \cup DOMAIN p |-> IF k \in DOMAIN p THEN p[k] ELSE d[k]]

EmptyDict == [k \in {} |-> Str(<<>>)]

----------------------------------------------------------------------------
(* json.loads, as used at cw_log_parser.py:81.  The scanner follows the    *)
(* grammar of Python's json module: whitespace, objects with string keys,  *)
(* arrays, strings with backslash escapes and no raw control characters,   *)
(* numbers, and the literals true, false, null, NaN, Infinity, -Infinity.  *)
(* Every operator returns the position after what it scanned, 0 when the   *)
(* text is not valid there.                                                *)

RECURSIVE SkipWs(_, _)
SkipWs(s, i) == IF At(s, i) \in Whitespace THEN SkipWs(s, i + 1) ELSE i

HexDigits == Digits \cup {"a", "b", "c", "d", "e", "f", "A", "B", "C", "D", "E", "F"}

SimpleEscapes == {"\"", "\\", "/", "b", "f", "n", "r", "t"}

RECURSIVE StrEnd(_, _)
\* j is inside a string literal (after its opening quote)
StrEnd(s, j) ==
    IF j > Len(s) THEN 0
    ELSE IF s[j] = "\"" THEN j + 1
    ELSE IF s[j] = "\\" THEN
        IF At(s, j + 1) \in SimpleEscapes THEN StrEnd(s, j + 2)
        ELSE IF At(s, j + 1) = "u" /\ \A k \in 2..5 : At(s, j + k) \in HexDigits
             THEN StrEnd(s, j + 6)
        ELSE 0
    ELSE IF s[j] \in {"\n", "\t", "\r"} THEN 0
    ELSE StrEnd(s, j + 1)

\* NUMBER_RE: (-?(?:0|[1-9]\d*))(\.\d+)?([eE][-+]?\d+)?
NumberEnd(s, i) ==
    LET j0 == IF At(s, i) = "-" THEN i + 1 ELSE i
        j1 == IF At(s, j0) = "0" THEN j0 + 1
              ELSE IF At(s, j0) \in Digits THEN SkipDigits(s, j0 + 1)
              ELSE 0
        j2 == IF At(s, j1) = "." /\ At(s, j1 + 1) \in Digits
              THEN SkipDigits(s, j1 + 2) ELSE j1
        k  == IF At(s, j2 + 1) \in {"-", "+"} THEN j2 + 2 ELSE j2 + 1
        j3 == IF At(s, j2) \in {"e", "E"} /\ At(s, k) \in Digits
              THEN SkipDigits(s, k + 1) ELSE j2
    IN IF j1 = 0 THEN 0 ELSE j3

Lit_null == <<"n", "u", "l", "l">>
Lit_true == <<"t", "r", "u", "e">>
Lit_false == <<"f", "a", "l", "s", "e">>
Lit_NaN == <<"N", "a", "N">>
Lit_Infinity == <<"I", "n", "f", "i", "n", "i", "t", "y">>
Lit_NegInfinity == <<"-">> \o Lit_Infinity

RECURSIVE ValueEnd(_, _)
RECURSIVE MemberEnd(_, _)
RECURSIVE ElementEnd(_, _)

\* scan_once at position i
ValueEnd(s, i) ==
    LET c == At(s, i) IN
    CASE c = "\"" -> StrEnd(s, i + 1)
      [] c = "{" -> LET j == SkipWs(s, i + 1) IN
                    IF At(s, j) = "}" THEN j + 1 ELSE MemberEnd(s, j)
      [] c = "[" -> LET j == SkipWs(s, i + 1) IN
                    IF At(s, j) = "]" THEN j + 1 ELSE ElementEnd(s, j)
      [] c = "n" -> IF MatchAt(s, Lit_null, i) THEN i + 4 ELSE 0
      [] c = "t" -> IF MatchAt(s, Lit_true, i) THEN i + 4 ELSE 0
      [] c = "f" -> IF MatchAt(s, Lit_false, i) THEN i + 5 ELSE 0
      [] c = "N" -> IF MatchAt(s, Lit_NaN, i) THEN i + 3 ELSE 0
      [] c = "I" -> IF MatchAt(s, Lit_Infinity, i) THEN i + 8 ELSE 0
      [] c = "-" -> IF NumberEnd(s, i) # 0 THEN NumberEnd(s, i)
                    ELSE IF MatchAt(s, Lit_NegInfinity, i) THEN i + 9 ELSE 0
      [] c \in Digits -> NumberEnd(s, i)
      [] OTHER -> 0

\* i is where a member "key": value of an object must start
MemberEnd(s, i) ==
    IF At(s, i) # "\"" THEN 0
    ELSE LET k == StrEnd(s, i + 1)
             c == SkipWs(s, k)
             e == ValueEnd(s, SkipWs(s, c + 1))
             n == SkipWs(s, e)
         IN IF k = 0 \/ At(s, c) # ":" \/ e = 0 THEN 0
            ELSE IF At(s, n) = "}" THEN n + 1
            ELSE IF At(s, n) = "," THEN MemberEnd(s, SkipWs(s, n + 1))
            ELSE 0

\* i is where an element of an array must start
ElementEnd(s, i) ==
    LET e == ValueEnd(s, i)
        n == SkipWs(s, e)
    IN IF e = 0 THEN 0
       ELSE IF At(s, n) = "]" THEN n + 1
       ELSE IF At(s, n) = "," THEN ElementEnd(s, SkipWs(s, n + 1))
       ELSE 0

RECURSIVE Unescape(_)
\* the text of a string literal's inside, escapes resolved (a \uXXXX escape,
\* which names a character outside the modelled alphabet, is kept as written)
Unescape(s) ==
    IF s = <<>> THEN <<>>
    ELSE IF s[1] = "\\" /\ Len(s) >= 2 THEN
        LET c == s[2]
            r == CASE c = "n" -> <<"\n">> [] c = "t" -> <<"\t">> [] c = "r" -> <<"\r">>
                   [] c \in {"\"", "\\", "/"} -> <<c>>
                   [] OTHER -> <<"\\", c>>
        IN r \o Unescape(SubSeq(s, 3, Len(s)))
    ELSE <<s[1]>> \o Unescape(Tail(s))

\* the kind of the JSON value that starts at position i
KindAt(s, i) ==
    LET c == At(s, i) IN
    CASE c = "\"" -> "str"
      [] c = "{" -> "dict"
      [] c = "[" -> "list"
      [] OTHER -> "scalar"

\* the parsed value of the valid JSON text s[a .. b-1]
ValueOf(s, a, b) ==
    IF At(s, a) = "\"" THEN Str(Unescape(Slice(s, a + 1, b - 2)))
    ELSE [t |-> "json", s |-> Slice(s, a, b - 1), n |-> <<>>]

RECURSIVE Members(_, _)
\* the members <<key, value>> of a valid object, in order; i is where a member starts
Members(s, i) ==
    LET k == StrEnd(s, i + 1)
        v == SkipWs(s, SkipWs(s, k) + 1)
        e == ValueEnd(s, v)
        n == SkipWs(s, e)
        m == <<Unescape(Slice(s, i + 1, k - 2)), ValueOf(s, v, e)>>
    IN IF At(s, n) = "," THEN <<m>> \o Members(s, SkipWs(s, n + 1)) ELSE <<m>>

RECURSIVE Elements(_, _)
\* the elements <<start, end>> of a valid array, in order; i is where an element starts
Elements(s, i) ==
    LET e == ValueEnd(s, i)
        n == SkipWs(s, e)
    IN IF At(s, n) = "," THEN <<(<<i, e>>)>> \o Elements(s, SkipWs(s, n + 1))
       ELSE <<(<<i, e>>)>>

\* a dict from a sequence of <<key, value>>: a later pair replaces an earlier one
DictOfPairs(ps) ==
    [k \in {ps[i][1] : i \in DOMAIN ps} |->
        ps[CHOOSE i \in DOMAIN ps :
              ps[i][1] = k /\ \A j \in DOMAIN ps : ps[j][1] = k => j <= i][2]]

\* json.loads(s): whether s is valid, and the kind and extent of its value
JsonLoads(s) ==
    LET i == SkipWs(s, 1)
        e == ValueEnd(s, i)
    IN IF e = 0 \/ SkipWs(s, e) # Len(s) + 1
       THEN [ok |-> FALSE, kind |-> "none", start |-> 0, end |-> 0]
       ELSE [ok |-> TRUE, kind |-> KindAt(s, i), start |-> i, end |-> e]

----------------------------------------------------------------------------
(* What dict.update(x) makes of an x that is not a dict: it iterates x    *)
(* and needs every item to be a sequence of two, the first one hashable.  *)

NoPair == [exc |-> "", k |-> <<>>, v |-> Str(<<>>)]

\* an item that is a string u: its two characters are the key and the value
StrItem(u) ==
    IF Len(u) = 2 THEN [exc |-> "", k |-> <<u[1]>>, v |-> Str(<<u[2]>>)]
    ELSE [NoPair EXCEPT !.exc = "ValueError"]

\* an item that is an array with the element extents es: [key, value]
ListItem(s, es) ==
    IF Len(es) # 2 THEN [NoPair EXCEPT !.exc = "ValueError"]
    ELSE IF KindAt(s, es[1][1]) \in {"list", "dict"} THEN [NoPair EXCEPT !.exc = "TypeError"]
    ELSE [exc |-> "", k |-> ValueOf(s, es[1][1], es[1][2]).s,
          v |-> ValueOf(s, es[2][1], es[2][2])]

\* an item that is an object with the keys ks (in order, each once): iterating it
\* gives its keys
DictItem(ks) ==
    IF Len(ks) = 2 THEN [exc |-> "", k |-> ks[1], v |-> Str(ks[2])]
    ELSE [NoPair EXCEPT !.exc = "ValueError"]

RECURSIVE DistinctKeys(_, _)
\* the keys of the members ms in the order of their first occurrence, after seen
DistinctKeys(ms, seen) ==
    IF ms = <<>> THEN seen
    ELSE DistinctKeys(Tail(ms),
                      IF \E i \in DOMAIN seen : seen[i] = ms[1][1] THEN seen
                      ELSE Append(seen, ms[1][1]))

\* the members of the valid JSON object that starts at position i
MembersAt(s, i) == IF At(s, SkipWs(s, i + 1)) = "}" THEN <<>> ELSE Members(s, SkipWs(s, i + 1))

\* the dict of the valid JSON object that starts at position i
ObjectAt(s, i) == DictOfPairs(MembersAt(s, i))

\* the element extents of the valid JSON array that starts at position i
ArrayAt(s, i) == IF At(s, SkipWs(s, i + 1)) = "]" THEN <<>> ELSE Elements(s, SkipWs(s, i + 1))

\* one item of the update sequence, the JSON value s[a .. b-1]
UpdateItem(s, a, b) ==
    CASE KindAt(s, a) = "scalar" -> [NoPair EXCEPT !.exc = "TypeError"]
      [] KindAt(s, a) = "str" -> StrItem(Unescape(Slice(s, a + 1, b - 2)))
      [] KindAt(s, a) = "list" -> ListItem(s, ArrayAt(s, a))
      [] KindAt(s, a) = "dict" -> DictItem(DistinctKeys(MembersAt(s, a), <<>>))

\* the items of an array with the element extents es
ListItems(s, es) == [i \in DOMAIN es |-> UpdateItem(s, es[i][1], es[i][2])]

\* the items of a string u: its characters, none of them a pair
StrItems(u) == [i \in DOMAIN u |-> [NoPair EXCEPT !.exc = "ValueError"]]

\* the return value of json.loads on valid text, as _parse_single_event passes it on:
\* a dict, or the items a dict.update would iterate over
LoadedPayload(s, r) ==
    CASE r.kind = "dict" -> [kind |-> "dict", dict |-> ObjectAt(s, r.start), items |-> <<>>]
      [] r.kind = "list" ->
            [kind |-> "list", dict |-> EmptyDict, items |-> ListItems(s, ArrayAt(s, r.start))]
      [] r.kind = "str" ->
            [kind |-> "str", dict |-> EmptyDict,
             items |-> StrItems(Unescape(Slice(s, r.start + 1, r.end - 2)))]
      [] OTHER -> [kind |-> "scalar", dict |-> EmptyDict, items |-> <<>>]

DictPayload(d) == [kind |-> "dict", dict |-> d, items |-> <<>>]

----------------------------------------------------------------------------
(* CloudWatchLogsParser: the sub-parsers                                   *)

T_tab == <<"\t">>
T_colon == <<":">>
T_newline == <<"\n">>
K_message == <<"m", "e", "s", "s", "a", "g", "e">>
K_log_type == <<"l", "o", "g", "_", "t", "y", "p", "e">>
K_aws_request_id == <<"a", "w", "s", "_", "r", "e", "q", "u", "e", "s", "t", "_", "i", "d">>
K_duration_in_ms == <<"d", "u", "r", "a", "t", "i", "o", "n", "_", "i", "n", "_", "m", "s">>
K_billed_duration_in_ms == <<"b", "i", "l", "l", "e", "d", "_", "d", "u", "r", "a", "t", "i", "o", "n", "_", "i", "n", "_", "m", "s">>
K_memory_size_in_mb == <<"m", "e", "m", "o", "r", "y", "_", "s", "i", "z", "e", "_", "i", "n", "_", "m", "b">>
K_max_memory_used_in_mb == <<"m", "a", "x", "_", "m", "e", "m", "o", "r", "y", "_", "u", "s", "e", "d", "_", "i", "n", "_", "m", "b">>
K_init_duration_in_ms == <<"i", "n", "i", "t", "_", "d", "u", "r", "a", "t", "i", "o", "n", "_", "i", "n", "_", "m", "s">>
K_cwl_parser_exception == <<"c", "w", "l", "_", "p", "a", "r", "s", "e", "r", "_", "e", "x", "c", "e", "p", "t", "i", "o", "n">>
K_log_record_timestamp == <<"l", "o", "g", "_", "r", "e", "c", "o", "r", "d", "_", "t", "i", "m", "e", "s", "t", "a", "m", "p">>
K_timestamp == <<"t", "i", "m", "e", "s", "t", "a", "m", "p">>
K_aws_account == <<"a", "w", "s", "_", "a", "c", "c", "o", "u", "n", "t">>
K_log_group == <<"l", "o", "g", "_", "g", "r", "o", "u", "p">>
K_log_stream == <<"l", "o", "g", "_", "s", "t", "r", "e", "a", "m">>
K_at_timestamp == <<"@", "t", "i", "m", "e", "s", "t", "a", "m", "p">>
T_REPORT == <<"R", "E", "P", "O", "R", "T">>
T_ERROR == <<"E", "R", "R", "O", "R">>
P_START == <<"S", "T", "A", "R", "T", " ", "R", "e", "q", "u", "e", "s", "t", "I", "d">>
P_END == <<"E", "N", "D", " ", "R", "e", "q", "u", "e", "s", "t", "I", "d">>
P_REPORT == <<"R", "E", "P", "O", "R", "T", " ", "R", "e", "q", "u", "e", "s", "t", "I", "d">>
P_ERROR == <<"[", "E", "R", "R", "O", "R", "]", " ">>
F_Duration == <<"D", "u", "r", "a", "t", "i", "o", "n">>
F_BilledDuration == <<"B", "i", "l", "l", "e", "d", " ", "D", "u", "r", "a", "t", "i", "o", "n">>
F_MemorySize == <<"M", "e", "m", "o", "r", "y", " ", "S", "i", "z", "e">>
F_MaxMemoryUsed == <<"M", "a", "x", " ", "M", "e", "m", "o", "r", "y", " ", "U", "s", "e", "d">>
F_InitDuration == <<"I", "n", "i", "t", " ", "D", "u", "r", "a", "t", "i", "o", "n">>

RECURSIVE DigitsValue(_)
\* the number a text of digits denotes
DigitsValue(s) ==
    IF s = <<>> THEN 0 ELSE 10 * DigitsValue(SubSeq(s, 1, Len(s) - 1)) + DigitVal(s[Len(s)])

RECURSIVE StripZeros(_)
StripZeros(s) ==
    IF s # <<>> /\ s[Len(s)] = "0" THEN StripZeros(SubSeq(s, 1, Len(s) - 1)) ELSE s

RECURSIVE Pow10(_)
Pow10(k) == IF k = 0 THEN 1 ELSE 10 * Pow10(k - 1)

\* int(text): surrounding whitespace, an optional sign, decimal digits
\* (digit-group underscores are outside the modelled alphabet)
PyInt(text) ==
    LET u == Strip(text)
        signed == At(u, 1) \in {"-", "+"}
        d == IF signed THEN Tail(u) ELSE u
    IN IF d # <<>> /\ \A i \in DOMAIN d : d[i] \in Digits
       THEN [ok |-> TRUE,
             val |-> [t |-> "int", s |-> <<>>,
                      n |-> <<IF At(u, 1) = "-" THEN 0 - DigitsValue(d) ELSE DigitsValue(d)>>]]
       ELSE [ok |-> FALSE, val |-> Str(<<>>)]

\* float(text): surrounding whitespace, an optional sign, digits with an optional
\* fraction (exponents, inf, nan and underscores are outside the modelled
\* alphabet); the value is <<mantissa, decimals>> with no trailing zero decimals
PyFloat(text) ==
    LET u == Strip(text)
        signed == At(u, 1) \in {"-", "+"}
        d == IF signed THEN Tail(u) ELSE u
        p == FindFrom(d, <<".">>, 1)
        ip == IF p = 0 THEN d ELSE Slice(d, 1, p - 1)
        fp == IF p = 0 THEN <<>> ELSE Slice(d, p + 1, Len(d))
        fz == StripZeros(fp)
        m == DigitsValue(ip) * Pow10(Len(fz)) + DigitsValue(fz)
    IN IF /\ ip \o fp # <<>>
          /\ \A i \in DOMAIN ip : ip[i] \in Digits
          /\ \A i \in DOMAIN fp : fp[i] \in Digits
       THEN [ok |-> TRUE,
             val |-> [t |-> "float", s |-> <<>>,
                      n |-> <<IF At(u, 1) = "-" THEN 0 - m ELSE m, Len(fz)>>]]
       ELSE [ok |-> FALSE, val |-> Str(<<>>)]

\* one pass of the loop of _parse_control_message over the split field parts:
\* the report after it, or raised when a field does not unpack or convert
ControlField(acc, parts) ==
    IF acc.raised THEN acc
    ELSE IF Len(parts) # 2 THEN [acc EXCEPT !.raised = TRUE]
    ELSE LET key == parts[1]
             value == parts[2]
             f == PyFloat(Slice1Minus3(value))
             i == PyInt(Slice1Minus3(value))
             Set(k, r) == IF r.ok THEN [acc EXCEPT !.report = DictUpdate(@, (k :> r.val))]
                          ELSE [acc EXCEPT !.raised = TRUE]
         IN CASE key = P_REPORT ->
                    [acc EXCEPT !.report = DictUpdate(@, (K_aws_request_id :> Str(Strip(value))))]
              [] key = F_Duration -> Set(K_duration_in_ms, f)
              [] key = F_BilledDuration -> Set(K_billed_duration_in_ms, f)
              [] key = F_MemorySize -> Set(K_memory_size_in_mb, i)
              [] key = F_MaxMemoryUsed -> Set(K_max_memory_used_in_mb, i)
              [] key = F_InitDuration -> Set(K_init_duration_in_ms, f)
              [] OTHER -> acc

RECURSIVE ControlLoop(_, _)
ControlLoop(acc, fields) ==
    IF fields = <<>> THEN acc
    ELSE ControlLoop(ControlField(acc, Split(fields[1], T_colon)), Tail(fields))

\* _parse_control_message(control): [raised, exc, report]
ParseControlMessage(control) ==
    LET clean_control == Strip(control)
        fields == Split(clean_control, T_tab)
        report == (K_message :> Str(clean_control)) @@ (K_log_type :> Str(T_REPORT))
    IN ControlLoop([raised |-> FALSE, report |-> report], fields)

\* _parse_error_message that keeps the whole text
ParseErrorMessageWhole(error_message) ==
    (K_log_type :> Str(T_ERROR)) @@ (K_message :> Str(error_message))

\* _parse_error_message(error_message)
ParseErrorMessage(error_message) ==
    LET newline_pos == FindFrom(error_message, T_newline, 1) IN
    (K_log_type :> Str(T_ERROR)) @@
    (K_message :> Str(IF newline_pos = 0 THEN error_message
                      ELSE Slice(error_message, 1, newline_pos - 1)))

RECURSIVE DirtyLoopNoBreak(_, _)
\* the loop with continue in place of break at the key message
DirtyLoopNoBreak(parsed_json, pairs) ==
    IF pairs = <<>> THEN parsed_json
    ELSE LET arr == Split(pairs[1], <<":", " ">>) IN
         IF Len(arr) < 2 \/ arr[1] = <<>> THEN DirtyLoopNoBreak(parsed_json, Tail(pairs))
         ELSE IF arr[1] = K_timestamp
              THEN DirtyLoopNoBreak(
                       DictUpdate(parsed_json, (K_log_record_timestamp :> Str(arr[2]))),
                       Tail(pairs))
         ELSE IF arr[1] = K_message THEN DirtyLoopNoBreak(parsed_json, Tail(pairs))
         ELSE DirtyLoopNoBreak(DictUpdate(parsed_json, (arr[1] :> Str(arr[2]))), Tail(pairs))

RECURSIVE DirtyLoop(_, _)
\* the loop of _parse_dirty_json over the pairs, from the dict built so far
DirtyLoop(parsed_json, pairs) ==
    IF pairs = <<>> THEN parsed_json
    ELSE LET arr == Split(pairs[1], <<":", " ">>) IN
         IF Len(arr) < 2 \/ arr[1] = <<>> THEN DirtyLoop(parsed_json, Tail(pairs))
         ELSE IF arr[1] = K_timestamp
              THEN DirtyLoop(DictUpdate(parsed_json, (K_log_record_timestamp :> Str(arr[2]))),
                             Tail(pairs))
         ELSE IF arr[1] = K_message THEN parsed_json
         ELSE DirtyLoop(DictUpdate(parsed_json, (arr[1] :> Str(arr[2]))), Tail(pairs))

\* _parse_dirty_json(dirty_json_str)
ParseDirtyJson(dirty_json_str) ==
    LET r1 == Replace(dirty_json_str, <<"{">>, <<",", " ">>)
        r2 == Replace(r1, <<"}">>, <<",", " ">>)
        r3 == Replace(r2, <<"\n">>, <<>>)
        r4 == Replace(r3, <<"\\">>, <<>>)
        r5 == Replace(r4, <<"\"">>, <<>>)
        payload_str == Replace(r5, <<"\\", "s">>, <<>>)
    IN DirtyLoop(EmptyDict, Split(payload_str, <<",", " ">>))

\* repr(exc) of the exception json.loads raised: the class name opens it
\* (the message and position that follow in parentheses are not modelled)
ExcRepr(json_str) == <<"J", "S", "O", "N", "D", "e", "c", "o", "d", "e", "E", "r", "r", "o", "r">>

\* Recovery that marks the raw-message fallback only
RecoveryNoMarker(json_str, recovered) ==
    IF DOMAIN recovered = {}
    THEN (K_message :> Str(json_str)) @@ (K_cwl_parser_exception :> Str(ExcRepr(json_str)))
    ELSE recovered

\* Recovery that stores the raw message next to the recovered fields too
RecoveryRawAlways(json_str, recovered) ==
    DictUpdate(recovered,
               (K_message :> Str(json_str)) @@
               (K_cwl_parser_exception :> Str(ExcRepr(json_str))))

\* the except branch of _parse_single_event, lines 82-88: the recovered fields
\* (the raw message when there are none) with the exception's repr
Recovery(json_str, recovered) ==
    IF DOMAIN recovered = {}
    THEN (K_message :> Str(json_str)) @@ (K_cwl_parser_exception :> Str(ExcRepr(json_str)))
    ELSE DictUpdate(recovered, (K_cwl_parser_exception :> Str(ExcRepr(json_str))))

\* _parse_single_event after json.loads returned or raised (r)
SingleEvent(json_str, r) ==
    IF r.ok THEN LoadedPayload(json_str, r)
    ELSE DictPayload(Recovery(json_str, ParseDirtyJson(json_str)))

\* _parse_single_event(json_str)
ParseSingleEvent(json_str) == SingleEvent(json_str, JsonLoads(json_str))

\* source.update(payload), cw_log_parser.py:35: the fields it merges into the
\* source, or the exception it raises when the payload is not a dict and cannot
\* be iterated as key/value pairs
UpdateOutcome(payload) ==
    LET bad == {i \in DOMAIN payload.items : payload.items[i].exc # ""}
        first == CHOOSE i \in bad : \A j \in bad : i <= j
    IN CASE payload.kind = "dict" -> [exc |-> "", dict |-> payload.dict]
         [] payload.kind = "scalar" -> [exc |-> "TypeError", dict |-> EmptyDict]
         [] OTHER ->
              IF bad # {} THEN [exc |-> payload.items[first].exc, dict |-> EmptyDict]
              ELSE [exc |-> "",
                    dict |-> DictOfPairs([i \in DOMAIN payload.items |->
                                <<payload.items[i].k, payload.items[i].v>>])]

----------------------------------------------------------------------------
(* Timestamps.  An event's timestamp is epoch milliseconds; it is held as  *)
(* [sec, ms] (whole seconds and the milliseconds within the second) since  *)
(* the millisecond count itself does not fit TLC's integers.               *)

\* the civil date of a day number counted from 1970-01-01 (proleptic Gregorian)
CivilFromDays(days) ==
    LET z == days + 719468
        era == z \div 146097
        doe == z - era * 146097
        yoe == (doe - (doe \div 1460) + (doe \div 36524) - (doe \div 146096)) \div 365
        doy == doe - (365 * yoe + (yoe \div 4) - (yoe \div 100))
        mp == (5 * doy + 2) \div 153
        d == doy - ((153 * mp + 2) \div 5) + 1
        m == IF mp < 10 THEN mp + 3 ELSE mp - 9
        y == yoe + era * 400 + (IF m <= 2 THEN 1 ELSE 0)
    IN <<y, m, d>>

\* datetime.fromtimestamp(timestamp / 1000.0): the naive local time of the
\* process, whose zone is utc_offset seconds east of UTC
FromTimestamp(timestamp, utc_offset) ==
    LET local == timestamp.sec + utc_offset
        days == local \div 86400
        rest == local - days * 86400
        ymd == CivilFromDays(days)
    IN [t |-> "datetime", s |-> <<>>,
        n |-> <<ymd[1], ymd[2], ymd[3],
                rest \div 3600, (rest % 3600) \div 60, rest % 60, timestamp.ms>>]

\* a number in decimal, zero-padded to at least width digits
RECURSIVE Decimal(_, _)
Decimal(v, width) ==
    IF v < 10 /\ width <= 1 THEN <<DigitChar(v)>>
    ELSE Decimal(v \div 10, width - 1) \o <<DigitChar(v % 10)>>

\* timestamp.strftime('%Y-%m')
StrftimeYm(dt) == Decimal(dt.n[1], 4) \o <<"-">> \o Decimal(dt.n[2], 2)

\* index_name, cw_log_parser.py:22
IndexName(dt) == <<"c", "w", "-", "l", "o", "g", "s", "-">> \o StrftimeYm(dt)

----------------------------------------------------------------------------
(* parse_log_events: classification and assembly of one event              *)

\* Classify without the test for the error marker
ClassifyNoError(message) ==
    IF StartsWith(message, P_START) \/ StartsWith(message, P_END) THEN "lifecycle"
    ELSE IF StartsWith(message, P_REPORT) THEN "report"
    ELSE "payload"

\* Classify that filters the start marker only
ClassifyStartOnly(message) ==
    IF StartsWith(message, P_START) THEN "lifecycle"
    ELSE IF StartsWith(message, P_REPORT) THEN "report"
    ELSE IF StartsWith(message, P_ERROR) THEN "error"
    ELSE "payload"

\* the branch of parse_log_events (lines 25-32) that handles a message
Classify(message) ==
    IF StartsWith(message, P_START) \/ StartsWith(message, P_END) THEN "lifecycle"
    ELSE IF StartsWith(message, P_REPORT) THEN "report"
    ELSE IF StartsWith(message, P_ERROR) THEN "error"
    ELSE "payload"

\* shared, lines 12-16
SharedOf(ld) ==
    (K_aws_account :> Str(ld.owner)) @@ (K_log_group :> Str(ld.logGroup)) @@
    (K_log_stream :> Str(ld.logStream))

\* what the call of _parse_control_message at line 28 leaves: the report, or
\* the ValueError it raised
ReportPayload(ctl) ==
    IF ctl.raised THEN [exc |-> "ValueError", payload |-> DictPayload(EmptyDict)]
    ELSE [exc |-> "", payload |-> DictPayload(ctl.report)]

\* the payload of a message that is not a lifecycle line, lines 27-32:
\* [exc, payload], exc the exception a sub-parser raised ("" when none)
PayloadOf(message) ==
    CASE Classify(message) = "report" -> ReportPayload(ParseControlMessage(message))
      [] Classify(message) = "error" ->
            [exc |-> "", payload |-> DictPayload(ParseErrorMessage(message))]
      [] OTHER -> [exc |-> "", payload |-> ParseSingleEvent(message)]

\* SourceOf without the update of line 35
SourceOfContextOnly(shared, fields, timestamp) ==
    DictUpdate(shared, (K_at_timestamp :> timestamp))

\* source, lines 34-36
SourceOf(shared, fields, timestamp) ==
    DictUpdate(DictUpdate(shared, fields), (K_at_timestamp :> timestamp))

\* the id of the action built from an event, line 40
ActionId(event) == event.id

\* action, lines 39-44
ActionOf(event, index_name, source) ==
    [_id |-> ActionId(event), _index |-> index_name, _op_type |-> "index", _source |-> source]

\* EventTime reading the wall clock instead of the event
EventTimeNow(event, now) == now

\* the time parse_log_events converts, line 21: the event's own timestamp
\* (now, the wall clock of the processing, is not read)
EventTime(event, now) == event.timestamp

Skipped == [kind |-> "skip", exc |-> "", action |-> <<>>]

Raised(e) == [kind |-> "raise", exc |-> e, action |-> <<>>]

\* lines 34-46 for the fields u that source.update merges (or its exception)
Assemble(shared, event, timestamp, u) ==
    IF u.exc # "" THEN Raised(u.exc)
    ELSE [kind |-> "yield", exc |-> "",
          action |-> <<ActionOf(event, IndexName(timestamp),
                                SourceOf(shared, u.dict, timestamp))>>]

\* lines 27-46 for the outcome p of the sub-parser
Dispatch(shared, event, timestamp, p) ==
    IF p.exc # "" THEN Raised(p.exc)
    ELSE Assemble(shared, event, timestamp, UpdateOutcome(p.payload))

\* one pass of the loop of parse_log_events over an event (lines 18-46):
\* "skip" (a lifecycle line, continue), "raise" (an exception leaves the
\* generator) or "yield" with the action (a sequence of one)
EventOutcome(shared, event, now, utc_offset) ==
    IF Classify(event.message) = "lifecycle" THEN Skipped
    ELSE Dispatch(shared, event, FromTimestamp(EventTime(event, now), utc_offset),
                  PayloadOf(event.message))

\* SharedAfter when line 34 aliases shared (source = shared) instead of copying it
SharedAfterAliased(shared, fields) == fields

\* shared after an event was assembled: line 34 copies it (dict(shared)), so
\* the fields of one event's payload never reach the next event
SharedAfter(shared, fields) == shared

----------------------------------------------------------------------------
(* The input space: the events of two log streams, and the batches that    *)
(* CloudWatch Logs delivers from them.  Event ids are unique (the platform *)
(* assigns them) and an event belongs to one stream.                       *)

MaxBatch == 2

Time(sec, ms) == [sec |-> sec, ms |-> ms]

\* 2021-01-31 23:59:59.999, 2021-02-01 00:00:00.000, 2021-02-14 12:00:00.250,
\* 2020-02-10 08:30:00.000 and 2021-12-31 23:30:00.000 UTC
T_JanEnd == Time(1612137599, 999)
T_FebStart == Time(1612137600, 0)
T_FebMid == Time(1613304000, 250)
T_Feb2020 == Time(1581323400, 0)
T_DecEnd == Time(1640993400, 0)

Event(id, timestamp, message) == [id |-> id, timestamp |-> timestamp, message |-> message]

Stream1 == [owner |-> <<"1", "2", "3">>, logGroup |-> <<"/", "a", "w", "s", "/", "l", "a", "m", "b", "d", "a", "/", "f">>, logStream |-> <<"s", "1">>]
Stream2 == [owner |-> <<"1", "2", "3">>, logGroup |-> <<"/", "a", "w", "s", "/", "l", "a", "m", "b", "d", "a", "/", "g">>, logStream |-> <<"s", "2">>]

Events1 ==
    { Event("e1", T_JanEnd, <<"S", "T", "A", "R", "T", " ", "R", "e", "q", "u", "e", "s", "t", "I", "d", ":", " ", "r", "1">>),
      Event("e2", T_JanEnd, <<"R", "E", "P", "O", "R", "T", " ", "R", "e", "q", "u", "e", "s", "t", "I", "d", ":", " ", "r", "1", "\t", "D", "u", "r", "a", "t", "i", "o", "n", ":", " ", "2", ".", "5", "0", " ", "m", "s", "\t", "M", "e", "m", "o", "r", "y", " ", "S", "i", "z", "e", ":", " ", "1", "2", "8", " ", "M", "B">>),
      Event("e3", T_FebStart, <<"{", "\"", "l", "e", "v", "e", "l", "\"", ":", " ", "\"", "i", "n", "f", "o", "\"", ",", " ", "\"", "l", "o", "g", "_", "g", "r", "o", "u", "p", "\"", ":", " ", "\"", "e", "v", "i", "l", "\"", ",", " ", "\"", "@", "t", "i", "m", "e", "s", "t", "a", "m", "p", "\"", ":", " ", "\"", "n", "e", "v", "e", "r", "\"", "}">>),
      Event("e4", T_FebMid, <<"R", "E", "P", "O", "R", "T", " ", "R", "e", "q", "u", "e", "s", "t", "I", "d", ":", " ", "r", "2", "\t", "D", "u", "r", "a", "t", "i", "o", "n", ":", " ", "3", " ", "s">>),
      Event("e5", T_FebMid, <<"[", "E", "R", "R", "O", "R", "]", " ", "b", "o", "o", "m", "\n", "T", "r", "a", "c", "e", "b", "a", "c", "k">>) }

Events2 ==
    { Event("e6", T_Feb2020, <<"E", "N", "D", " ", "R", "e", "q", "u", "e", "s", "t", "I", "d", ":", " ", "r", "1">>),
      Event("e7", T_Feb2020, <<"l", "o", "g", "_", "s", "t", "r", "e", "a", "m", ":", " ", "x", ",", " ", "t", "i", "m", "e", "s", "t", "a", "m", "p", ":", " ", "T", ",", " ", "m", "e", "s", "s", "a", "g", "e", ":", " ", "m">>),
      Event("e8", T_FebMid, <<"h", "e", "l", "l", "o", " ", "w", "o", "r", "l", "d">>),
      Event("e9", T_JanEnd, <<"4", "2">>),
      Event("e10", T_DecEnd, <<"{", "\"", "a", "\"", ":", " ", "1", "}">>) }

AllEvents == Events1 \cup Events2

StreamOf(event) == IF event \in Events1 THEN Stream1 ELSE Stream2

RECURSIVE SeqsOf(_, _)
\* the sequences of at most n distinct elements of S
SeqsOf(S, n) ==
    IF n = 0 THEN {<<>>}
    ELSE LET shorter == SeqsOf(S, n - 1) IN
         shorter \cup
         UNION {{Append(q, e) : e \in S \ {q[i] : i \in DOMAIN q}} :
                q \in {r \in shorter : Len(r) = n - 1}}

LogData(stream, events) ==
    [owner |-> stream.owner, logGroup |-> stream.logGroup, logStream |-> stream.logStream,
     logEvents |-> events]

\* the decoded batches send_to_es may be handed
Batches ==
    {LogData(Stream1, q) : q \in SeqsOf(Events1, MaxBatch)} \cup
    {LogData(Stream2, q) : q \in SeqsOf(Events2, MaxBatch)}

\* wall-clock times of a processing: 2021-02-14 12:00:01 (as the events arrive)
\* and 2026-11-01 20:00:00 UTC (a later reprocessing)
Nows == {Time(1613304001, 0), Time(1793563200, 0)}

\* zones the process may run in: UTC and UTC+1
UtcOffsets == {0, 3600}

NoBatch == LogData(Stream1, <<>>)

----------------------------------------------------------------------------
(* State                                                                   *)

\* values of json_logging: None and int; the context as the class is created;
\* JsonFormatter.output_fields as None and as the terse list; no record, no output
None == [t |-> "none", s |-> <<>>, n |-> <<>>]

IntValue(k) == [t |-> "int", s |-> <<>>, n |-> <<k>>]

\* the keys of ContextFilter._context, in their order
ContextOrder ==
    <<"aws_request_id", "correlation_id", "function_name", "function_version",
      "invoked_function_arn", "log_group_name", "log_stream_name", "request_id">>

InitialContext == [f \in {ContextOrder[k] : k \in DOMAIN ContextOrder} |-> None]

NoFields == [is_none |-> TRUE, list |-> <<>>]

TerseFields == [is_none |-> FALSE, list |-> <<"gmtime", "log_level", "message">>]

NoEmit == [inst |-> 0, rec |-> [args |-> <<>>, dict |-> <<>>], extra |-> <<>>, call |-> <<>>]

NoOutput == [kind |-> "", obj |-> EmptyDict, items |-> <<>>]

\* what input() gives: a line, or EOFError
Answer(eof, line) == [eof |-> eof, line |-> line]

NoAnswer == Answer(FALSE, <<>>)

VARIABLES
    utc_offset,    \* the zone of the process (seconds east of UTC), fixed
    now,           \* the wall clock when the current batch is processed
    log_data,      \* the batch parse_log_events was called with
    shared,        \* the generator's shared dict
    pos,           \* the generator's position: the next event of logEvents
    gen,           \* "idle", "running", "done" (exhausted) or "raised"
    exc,           \* the exception that left the generator
    bulk_payload,  \* the actions yielded so far, as list() collects them
    built_from,    \* for each action, the position of the event it was built from
    sent,          \* how many actions the bulk call has handled
    errors,        \* how many of them the index store rejected
    store,         \* the index store: <<index name, document id>> -> body
    delivered,     \* the events whose action the store has indexed
    once,          \* the store after one delivery, alone, of each of them
    kept,          \* an action of an earlier run with its event and batch, if any
    called,        \* the sub-parser a caller invoked directly ("" when none)
    parts,         \* the pieces the argument of that call was put together from
    arg,           \* the argument of that call
    ret,           \* what the call returned
    event_records, \* upload.lambda_handler: event["Records"], as S3 objects
    event_i,       \* the position of the record the handler is at (from 1)
    handler,       \* "idle", "loop", "connect", "index", "returned" or "raised"
    processed,     \* the date groups the generator processed has yet to yield
    bulk_calls,    \* the bulk calls made in this invocation
    logged,        \* what event_logger has logged in this invocation
    conn_error,    \* the error the connection step raised in this invocation, if any
    handler_exc,   \* the exception that left the handler, if any
    context,       \* json_logging: ContextFilter._context, shared by all filters
    output_fields, \* JsonFormatter.output_fields
    requested,     \* for every context field, the value the callers last asked for
    op,            \* the call of json_logging in progress ("" when none)
    kwargs,        \* the keywords of that call of update_context
    before,        \* the context when that call was made
    raised,        \* the exception raised in that call, if any
    emitted,       \* the log record that call made, and the filter it passed
    output,        \* what the formatter returned for that record
    n_logged,      \* the number of records logged in that call
    propagated,    \* the exception that left the with statement of that call
    driver,        \* backfill main: "idle", "waiting", "returned" or "raised"
    driver_exc,    \* the exception that left main, if any
    object_keys,   \* the listed objects, as main passes them to the pool
    max_threads,   \* the argument max_threads of main
    threads,       \* max_workers of the pool
    futures,       \* for every submitted call: "pending", "running", "returned"
                   \* or the exception it raised
    invocations,   \* the object keys the Lambda function was invoked with
    cli,           \* sub_delete_stale_indices: "idle", "input" or "returned"
    today,         \* the day the tool runs on (days since 1970-01-01)
    current,       \* the indices of the cluster that match the pattern
    stale,         \* the indices the tool found stale
    answer,        \* what input() gave
    delete_requests \* the delete requests sent, each the set of indices it names

\* the variables of a direct call of a sub-parser
callVars == <<called, parts, arg, ret>>

\* the variables of an invocation of upload.lambda_handler
upVars == <<event_records, event_i, handler, processed, bulk_calls, logged, conn_error,
            handler_exc>>

\* the variables of json_logging
logVars == <<context, output_fields, requested, op, kwargs, before, raised, emitted, output,
             n_logged, propagated>>

\* the variables of the backfill driver
bfVars == <<driver, driver_exc, object_keys, max_threads, threads, futures, invocations>>

\* the variables of the index tool
cfgVars == <<cli, today, current, stale, answer, delete_requests>>

\* the variables of the command line tools
toolVars == <<bfVars, cfgVars>>

vars == <<utc_offset, now, log_data, shared, pos, gen, exc, bulk_payload, built_from,
          sent, errors, store, delivered, once, kept, callVars, upVars, logVars, toolVars>>

EmptyStore == [k \in {} |-> EmptyDict]

Init ==
    /\ utc_offset \in UtcOffsets
    /\ now \in Nows
    /\ log_data = NoBatch
    /\ shared = EmptyDict
    /\ pos = 1
    /\ gen = "idle"
    /\ exc = ""
    /\ bulk_payload = <<>>
    /\ built_from = <<>>
    /\ sent = 0
    /\ errors = 0
    /\ store = EmptyStore
    /\ delivered = {}
    /\ once = EmptyStore
    /\ kept = <<>>
    /\ called = ""
    /\ parts = <<>>
    /\ arg = <<>>
    /\ ret = EmptyDict
    /\ event_records = <<>>
    /\ event_i = 1
    /\ handler = "idle"
    /\ processed = <<>>
    /\ bulk_calls = <<>>
    /\ logged = <<>>
    /\ conn_error = ""
    /\ handler_exc = ""
    /\ context = InitialContext
    /\ output_fields = NoFields
    /\ requested = InitialContext
    /\ op = ""
    /\ kwargs = <<>>
    /\ before = InitialContext
    /\ raised = ""
    /\ emitted = NoEmit
    /\ output = NoOutput
    /\ n_logged = 0
    /\ propagated = ""
    /\ driver = "idle"
    /\ driver_exc = ""
    /\ object_keys = <<>>
    /\ max_threads = 1
    /\ threads = 0
    /\ futures = <<>>
    /\ invocations = <<>>
    /\ cli = "idle"
    /\ today = 0
    /\ current = {}
    /\ stale = {}
    /\ answer = NoAnswer
    /\ delete_requests = <<>>

----------------------------------------------------------------------------
(* send_to_es: parse_log_events is called with a decoded batch and list()  *)
(* runs it to the end, one event per step                                  *)

Start ==
    /\ gen = "idle"
    /\ \E ld \in Batches, t \in Nows :
          /\ log_data' = ld
          /\ now' = t
          /\ shared' = SharedOf(ld)
          /\ gen' = IF ld.logEvents = <<>> THEN "done" ELSE "running"
    /\ pos' = 1
    /\ exc' = ""
    /\ bulk_payload' = <<>>
    /\ built_from' = <<>>
    /\ sent' = 0
    /\ errors' = 0
    /\ UNCHANGED <<utc_offset, store, delivered, once, kept, callVars, upVars, logVars, toolVars>>

\* the generator after the outcome o of the event at pos
StepTo(o) ==
    /\ bulk_payload' = bulk_payload \o o.action
    /\ built_from' = IF o.kind = "yield" THEN Append(built_from, pos) ELSE built_from
    /\ shared' = IF o.kind = "yield" THEN SharedAfter(shared, o.action[1]._source) ELSE shared
    /\ gen' = IF o.kind = "raise" THEN "raised"
              ELSE IF pos = Len(log_data.logEvents) THEN "done" ELSE "running"
    /\ exc' = o.exc
    /\ pos' = IF o.kind = "raise" THEN pos ELSE pos + 1

ParseStep ==
    /\ gen = "running"
    /\ StepTo(EventOutcome(shared, log_data.logEvents[pos], now, utc_offset))
    /\ UNCHANGED <<utc_offset, now, log_data, sent, errors, store, delivered, once, kept,
                   callVars, upVars, logVars, toolVars>>

\* send_to_es is left: its locals are gone, the store and the clock stay
Left ==
    /\ gen' = "idle"
    /\ log_data' = NoBatch
    /\ shared' = EmptyDict
    /\ pos' = 1
    /\ exc' = ""
    /\ bulk_payload' = <<>>
    /\ built_from' = <<>>
    /\ sent' = 0
    /\ errors' = 0
    /\ UNCHANGED <<utc_offset, now, store, delivered, once, kept, callVars, upVars, logVars,
                   toolVars>>

\* the exception leaves list(), send_to_es and process: no bulk call is made
Propagate ==
    /\ gen = "raised"
    /\ Left

\* the run is over and its list complete (what the bulk call does with it is
\* followed in SpecStore)
Finish ==
    /\ gen = "done"
    /\ Left

\* observer: one action of the current run is kept, with the event and the
\* batch it came from, to be compared with the actions of later runs
Remember ==
    /\ \E i \in DOMAIN bulk_payload :
          kept' = <<[event |-> log_data.logEvents[built_from[i]],
                     stream |-> LogData(log_data, <<>>),
                     action |-> bulk_payload[i]]>>
    /\ UNCHANGED <<utc_offset, now, log_data, shared, pos, gen, exc, bulk_payload,
                   built_from, sent, errors, store, delivered, once, callVars, upVars,
                   logVars, toolVars>>

Next == Start \/ ParseStep \/ Propagate \/ Finish \/ Remember

Spec == Init /\ [][Next]_vars

----------------------------------------------------------------------------
(* send_to_es, line 25: insert_bulk_payload hands the list to the bulk     *)
(* call, which sends the actions to the index store in order.  The store   *)
(* handles one action at a time: it indexes the document (creating it, or  *)
(* replacing the one with the same index and id) or rejects it; the call   *)
(* may also end early (a lost connection, the invocation's timeout), and   *)
(* then the rest of the list never reaches the store.  Two invocations     *)
(* whose bulk calls interleave reach the same stores as deliveries that    *)
(* are cut short and resumed.                                              *)

DocKey(action) == <<action._index, action._id>>

\* the store after an action with _op_type "index"
StoreIndex(st, action) ==
    [k \in DOMAIN st \cup {DocKey(action)} |->
        IF k = DocKey(action) THEN action._source ELSE st[k]]

\* the action of an event delivered alone, in a batch of its own stream
ActionAlone(event) ==
    EventOutcome(SharedOf(StreamOf(event)), event, now, utc_offset).action[1]

\* the reference store: each event is delivered to it once, alone, when the
\* store first indexes the event's action
OnceAfter(event) ==
    IF event.id \in delivered THEN once ELSE StoreIndex(once, ActionAlone(event))

BulkIndex ==
    /\ gen = "done"
    /\ sent < Len(bulk_payload)
    /\ store' = StoreIndex(store, bulk_payload[sent + 1])
    /\ once' = OnceAfter(log_data.logEvents[built_from[sent + 1]])
    /\ delivered' = delivered \cup {log_data.logEvents[built_from[sent + 1]].id}
    /\ sent' = sent + 1
    /\ UNCHANGED <<utc_offset, now, log_data, shared, pos, gen, exc, bulk_payload,
                   built_from, errors, kept, callVars, upVars, logVars, toolVars>>

BulkReject ==
    /\ gen = "done"
    /\ sent < Len(bulk_payload)
    /\ errors' = errors + 1
    /\ sent' = sent + 1
    /\ UNCHANGED <<utc_offset, now, log_data, shared, pos, gen, exc, bulk_payload,
                   built_from, store, delivered, once, kept, callVars, upVars, logVars, toolVars>>

BulkCut ==
    /\ gen = "done"
    /\ sent < Len(bulk_payload)
    /\ Left

\* the bulk call has handled every action and none was rejected
BulkReturn ==
    /\ gen = "done"
    /\ sent = Len(bulk_payload)
    /\ errors = 0
    /\ Left

\* the bulk call has handled every action and some were rejected: called without
\* raise_on_error=False, elasticsearch.helpers.bulk raises BulkIndexError
BulkRaise ==
    /\ gen = "done"
    /\ sent = Len(bulk_payload)
    /\ errors > 0
    /\ gen' = "raised"
    /\ exc' = "BulkIndexError"
    /\ UNCHANGED <<utc_offset, now, log_data, shared, pos, bulk_payload, built_from,
                   sent, errors, store, delivered, once, kept, callVars, upVars, logVars, toolVars>>

NextStore ==
    Start \/ ParseStep \/ Propagate \/ BulkIndex \/ BulkReject \/ BulkCut \/ BulkReturn
        \/ BulkRaise

SpecStore == Init /\ [][NextStore]_vars

----------------------------------------------------------------------------
(* Direct calls of the sub-parsers.  They are class methods, and a caller   *)
(* may hand them any text.  The argument of a call is put together from     *)
(* pieces: the tab-separated fields of a report line, the comma-separated   *)
(* candidates of a payload, the lines of an error message.                  *)

MaxFields == 2

\* a field of a report line: its text, whether its key is known and its number
\* well-formed (kind), the report field of its key and the value it denotes
ReportField(text, kind, field, val) ==
    [text |-> text, kind |-> kind, field |-> field, val |-> val]

\* the request id field that opens a report line
RequestIdField == ReportField(<<"R", "E", "P", "O", "R", "T", " ", "R", "e", "q", "u", "e", "s", "t", "I", "d", ":", " ", "r", "1">>, "known", K_aws_request_id, Str(<<"r", "1">>))

ReportFields ==
    { ReportField(<<"D", "u", "r", "a", "t", "i", "o", "n", ":", " ", "2", ".", "5", "0", " ", "m", "s">>,
                  "known", K_duration_in_ms, [t |-> "float", s |-> <<>>, n |-> <<25, 1>>]),
      ReportField(<<"B", "i", "l", "l", "e", "d", " ", "D", "u", "r", "a", "t", "i", "o", "n", ":", " ", "3", " ", "m", "s">>,
                  "known", K_billed_duration_in_ms, [t |-> "float", s |-> <<>>, n |-> <<3, 0>>]),
      ReportField(<<"M", "e", "m", "o", "r", "y", " ", "S", "i", "z", "e", ":", " ", "1", "2", "8", " ", "M", "B">>,
                  "known", K_memory_size_in_mb, [t |-> "int", s |-> <<>>, n |-> <<128>>]),
      ReportField(<<"M", "a", "x", " ", "M", "e", "m", "o", "r", "y", " ", "U", "s", "e", "d", ":", " ", "6", "4", " ", "M", "B">>,
                  "known", K_max_memory_used_in_mb, [t |-> "int", s |-> <<>>, n |-> <<64>>]),
      ReportField(<<"I", "n", "i", "t", " ", "D", "u", "r", "a", "t", "i", "o", "n", ":", " ", "1", "5", "0", ".", "2", "1", " ", "m", "s">>,
                  "known", K_init_duration_in_ms, [t |-> "float", s |-> <<>>, n |-> <<15021, 2>>]),
      ReportField(<<"X", "R", "A", "Y", " ", "T", "r", "a", "c", "e", "I", "d", ":", " ", "1", "-", "5", "e">>,
                  "unknown", <<>>, Str(<<>>)),
      ReportField(<<"S", "a", "m", "p", "l", "e", "d">>,
                  "unknown", <<>>, Str(<<>>)),
      ReportField(<<"S", "e", "g", "m", "e", "n", "t", "I", "d", ":", " ", "1", "2", ":", "3", "0">>,
                  "unknown", <<>>, Str(<<>>)),
      ReportField(<<"D", "u", "r", "a", "t", "i", "o", "n", ":", " ", "3", " ", "s">>,
                  "unparsable", K_duration_in_ms, Str(<<>>)),
      ReportField(<<"M", "a", "x", " ", "M", "e", "m", "o", "r", "y", " ", "U", "s", "e", "d", ":", " ", "l", "o", "t", "s", " ", "M", "B">>,
                  "unparsable", K_max_memory_used_in_mb, Str(<<>>)) }

\* a candidate of a payload: its text, the key before its first ": ", the rest
\* after it (val), and the text between its first and second ": " (cut)
Candidate(text, key, val, cut) == [text |-> text, key |-> key, val |-> val, cut |-> cut]

Candidates ==
    { Candidate(<<"a", ":", " ", "1">>,
                <<"a">>, <<"1">>, <<"1">>),
      Candidate(<<"t", "i", "m", "e", "s", "t", "a", "m", "p", ":", " ", "T">>,
                <<"t", "i", "m", "e", "s", "t", "a", "m", "p">>, <<"T">>, <<"T">>),
      Candidate(<<"m", "e", "s", "s", "a", "g", "e", ":", " ", "m">>,
                <<"m", "e", "s", "s", "a", "g", "e">>, <<"m">>, <<"m">>),
      Candidate(<<"e", "x", "t", "r", "a", ":", " ", "x">>,
                <<"e", "x", "t", "r", "a">>, <<"x">>, <<"x">>),
      Candidate(<<"j", "u", "n", "k">>,
                <<>>, <<>>, <<>>),
      Candidate(<<":", " ", "v">>,
                <<>>, <<"v">>, <<"v">>),
      Candidate(<<"t", "i", "m", "e", "s", "t", "a", "m", "p", ":", " ", "1", "0", ":", " ", "3", "0">>,
                <<"t", "i", "m", "e", "s", "t", "a", "m", "p">>, <<"1", "0", ":", " ", "3", "0">>, <<"1", "0">>),
      Candidate(<<"{", "\"", "b", "\"", ":", " ", "\"", "2", "\"", "}">>,
                <<"b">>, <<"2">>, <<"2">>),
      Candidate(<<"c", ":", " ", "d", ":", " ", "e">>,
                <<"c">>, <<"d", ":", " ", "e">>, <<"d">>) }

\* lines of an error message
ErrorLines ==
    { <<"[", "E", "R", "R", "O", "R", "]", " ", "b", "o", "o", "m">>,
      <<"T", "r", "a", "c", "e", "b", "a", "c", "k", " ", "(", "m", "o", "s", "t", " ", "r", "e", "c", "e", "n", "t", " ", "c", "a", "l", "l", " ", "l", "a", "s", "t", ")", ":">>,
      <<>>,
      <<" ", " ", "F", "i", "l", "e", " ", "\"", "f", ".", "p", "y", "\"", ",", " ", "l", "i", "n", "e", " ", "1">> }

\* whitespace around a report line, as the platform appends it
Margins == {<<>>, <<"\t", "\n">>, <<" ">>}

RECURSIVE Join(_, _)
\* sep.join(q)
Join(q, sep) ==
    IF q = <<>> THEN <<>>
    ELSE IF Len(q) = 1 THEN q[1]
    ELSE q[1] \o sep \o Join(Tail(q), sep)

Texts(q) == [i \in DOMAIN q |-> q[i].text]

\* what is left unchanged by a direct call
runVars == <<utc_offset, now, log_data, shared, pos, gen, exc, bulk_payload, built_from,
             sent, errors, store, delivered, once, kept>>

CallControl ==
    /\ called = ""
    /\ \E q \in SeqsOf(ReportFields, MaxFields), lead \in Margins, trail \in Margins :
          /\ parts' = <<RequestIdField>> \o q
          /\ arg' = lead \o Join(Texts(<<RequestIdField>> \o q), T_tab) \o trail
    /\ called' = "_parse_control_message"
    /\ ret' = ParseControlMessage(arg')
    /\ UNCHANGED <<runVars, upVars, logVars, toolVars>>

CallError ==
    /\ called = ""
    /\ \E q \in SeqsOf(ErrorLines, MaxFields + 1) :
          /\ parts' = q
          /\ arg' = Join(q, T_newline)
    /\ called' = "_parse_error_message"
    /\ ret' = ParseErrorMessage(arg')
    /\ UNCHANGED <<runVars, upVars, logVars, toolVars>>

CallDirty ==
    /\ called = ""
    /\ \E q \in SeqsOf(Candidates, MaxFields + 1) :
          /\ parts' = q
          /\ arg' = Join(Texts(q), <<",", " ">>)
    /\ called' = "_parse_dirty_json"
    /\ ret' = ParseDirtyJson(arg')
    /\ UNCHANGED <<runVars, upVars, logVars, toolVars>>

CallSingle ==
    /\ called = ""
    /\ \E q \in SeqsOf(Candidates, MaxFields + 1) :
          /\ parts' = q
          /\ arg' = Join(Texts(q), <<",", " ">>)
    /\ called' = "_parse_single_event"
    /\ ret' = ParseSingleEvent(arg')
    /\ UNCHANGED <<runVars, upVars, logVars, toolVars>>

\* the caller is done with the value
Return ==
    /\ called # ""
    /\ called' = ""
    /\ parts' = <<>>
    /\ arg' = <<>>
    /\ ret' = EmptyDict
    /\ UNCHANGED <<runVars, upVars, logVars, toolVars>>

NextCall == CallControl \/ CallError \/ CallDirty \/ CallSingle \/ Return

SpecCall == Init /\ [][NextCall]_vars

----------------------------------------------------------------------------
(* upload.lambda_handler: for every S3 record of the event, the object is   *)
(* checked to be a log file, the connection to the index store is set up,   *)
(* and index_records sends the log records of the object, one bulk call per *)
(* run of records with the same date.                                       *)

MaxRecords == 2

UpperCase == <<"A", "B", "C", "D", "E", "F", "G", "H", "I", "J", "K", "L", "M",
               "N", "O", "P", "Q", "R", "S", "T", "U", "V", "W", "X", "Y", "Z">>

LowerCase == <<"a", "b", "c", "d", "e", "f", "g", "h", "i", "j", "k", "l", "m",
               "n", "o", "p", "q", "r", "s", "t", "u", "v", "w", "x", "y", "z">>

\* str.lower()
Lower(s) ==
    [k \in DOMAIN s |->
        IF \E u \in DOMAIN UpperCase : UpperCase[u] = s[k]
        THEN LowerCase[CHOOSE u \in DOMAIN UpperCase : UpperCase[u] = s[k]]
        ELSE s[k]]

\* sub in s
Contains(s, sub) == FindFrom(s, sub, 1) # 0

\* str.endswith(suffix)
EndsWith(s, suffix) ==
    Len(s) >= Len(suffix) /\ SubSeq(s, Len(s) - Len(suffix) + 1, Len(s)) = suffix

\* the test of lambda_handler, lines 98-102, without its negation
IsLogFile(object_key) ==
    /\ StartsWith(object_key, <<"_", "l", "o", "g", "s", "/">>)
          \/ Contains(object_key, <<"/", "l", "o", "g", "s", "/">>)
    /\ EndsWith(object_key, <<".", "g", "z">>)
    /\ Contains(Lower(object_key), <<"s", "t", "d", "e", "r", "r">>)

\* dates of log records, and the date of processing
D_Jan31 == <<"2", "0", "2", "1", "-", "0", "1", "-", "3", "1">>
D_Feb1 == <<"2", "0", "2", "1", "-", "0", "2", "-", "0", "1">>
D_Today == <<"2", "0", "2", "1", "-", "0", "2", "-", "0", "1">>

\* get_index_name without its argument: the index of the processing date
GetIndexNameToday(date) ==
    <<"d", "w", "-", "l", "o", "g", "s", "-">>
        \o Decimal(DigitsValue(Split(D_Today, <<"-">>)[1]), 4) \o <<"-">>
        \o Decimal(DigitsValue(Split(D_Today, <<"-">>)[2]), 2)

\* config.get_index_name(date) for a date given as text: strptime with
\* %Y-%m-%d, then strftime with dw-logs-%Y-%m
GetIndexName(date) ==
    <<"d", "w", "-", "l", "o", "g", "s", "-">>
        \o Decimal(DigitsValue(Split(date, <<"-">>)[1]), 4) \o <<"-">>
        \o Decimal(DigitsValue(Split(date, <<"-">>)[2]), 2)

\* a log record, as far as index_records uses it
LogRecord(id_, date) == [id_ |-> id_, date |-> date, data |-> [date |-> date]]


\* an S3 object: its key and the log records load_records yields from it
Object(object_key, content) == [key |-> object_key, content |-> content]

Objects ==
    { Object(<<"_", "l", "o", "g", "s", "/", "x", "/", "s", "t", "d", "e", "r", "r", ".", "g", "z">>,
             <<LogRecord("r1", D_Jan31), LogRecord("r2", D_Jan31), LogRecord("r3", D_Feb1)>>),
      Object(<<"d", "a", "t", "a", "/", "l", "o", "g", "s", "/", "S", "t", "d", "E", "r", "r", ".", "g", "z">>,
             <<LogRecord("r4", D_Feb1), LogRecord("r5", D_Jan31), LogRecord("r6", D_Feb1)>>),
      Object(<<"_", "l", "o", "g", "s", "/", "y", "/", "s", "t", "d", "e", "r", "r", ".", "g", "z">>, <<>>),
      Object(<<"l", "o", "g", "s", "/", "s", "t", "d", "e", "r", "r", ".", "g", "z">>, <<LogRecord("r7", D_Jan31)>>),
      Object(<<"_", "l", "o", "g", "s", "/", "x", "/", "s", "t", "d", "o", "u", "t", ".", "g", "z">>, <<LogRecord("r8", D_Jan31)>>),
      Object(<<"_", "l", "o", "g", "s", "/", "x", "/", "s", "t", "d", "e", "r", "r">>, <<LogRecord("r9", D_Jan31)>>) }

RECURSIVE GroupBy(_, _)
\* itertools.groupby(records, key = date), after the groups in acc
GroupBy(acc, recs) ==
    IF recs = <<>> THEN acc
    ELSE IF acc # <<>> /\ acc[Len(acc)].date = recs[1].date
         THEN GroupBy([acc EXCEPT ![Len(acc)].records = Append(@, recs[1])], Tail(recs))
         ELSE GroupBy(Append(acc, [date |-> recs[1].date, records |-> <<recs[1]>>]),
                      Tail(recs))

\* _build_actions_from(index, records)
BuildActionsFrom(index_name, recs) ==
    [k \in DOMAIN recs |->
        [_op_type |-> "index", _index |-> index_name, _id |-> recs[k].id_,
         _source |-> recs[k].data]]

Log(level, msg) == Append(logged, [i |-> event_i, level |-> level, msg |-> msg])

Invoke ==
    /\ handler = "idle"
    /\ event_records' \in SeqsOf(Objects, MaxRecords)
    /\ event_i' = 1
    /\ handler' = "loop"
    /\ processed' = <<>>
    /\ bulk_calls' = <<>>
    /\ logged' = <<>>
    /\ conn_error' = ""
    /\ handler_exc' = ""
    /\ UNCHANGED <<runVars, callVars, logVars, toolVars>>

\* lines 80-104: a record whose object is not a log file
SkipObject ==
    /\ handler = "loop"
    /\ event_i <= Len(event_records)
    /\ ~IsLogFile(event_records[event_i].key)
    /\ logged' = Log("INFO", "Object is not a log file")
    /\ event_i' = event_i + 1
    /\ UNCHANGED <<event_records, handler, processed, bulk_calls, conn_error, handler_exc,
                   runVars, callVars, logVars, toolVars>>

\* lines 80-107: a record whose object is a log file; load_records returns a
\* generator, nothing is loaded yet
LoadRecords ==
    /\ handler = "loop"
    /\ event_i <= Len(event_records)
    /\ IsLogFile(event_records[event_i].key)
    /\ logged' = Log("INFO", "Looking for log records")
    /\ processed' = GroupBy(<<>>, event_records[event_i].content)
    /\ handler' = "connect"
    /\ UNCHANGED <<event_records, event_i, bulk_calls, conn_error, handler_exc,
                   runVars, callVars, logVars, toolVars>>

\* lines 108-112: the endpoint is found, the client made, the template there
Connect ==
    /\ handler = "connect"
    /\ handler' = "index"
    /\ UNCHANGED <<event_records, event_i, processed, bulk_calls, logged, conn_error,
                   handler_exc, runVars, callVars, logVars, toolVars>>

\* lines 113-116: a step of the connection raises botocore's ClientError
ConnectClientError ==
    /\ handler = "connect"
    /\ conn_error' = "ClientError"
    /\ logged' = Log("ERROR", "Failed in initial connection")
    /\ handler_exc' = "ClientError"
    /\ handler' = "raised"
    /\ UNCHANGED <<event_records, event_i, processed, bulk_calls, runVars, callVars, logVars,
                   toolVars>>

\* the handler with an except clause that logs any error and goes on
ConnectOtherErrorSwallowed ==
    /\ handler = "connect"
    /\ conn_error' = "TransportError"
    /\ logged' = Log("ERROR", "Failed in initial connection")
    /\ handler' = "index"
    /\ UNCHANGED <<event_records, event_i, processed, bulk_calls, handler_exc, runVars,
                   callVars, logVars, toolVars>>

\* a step of the connection raises an error that is no ClientError (the store's
\* client raises TransportError when the store cannot be reached or refuses the
\* credentials): no except clause of the handler matches it
ConnectOtherError ==
    /\ handler = "connect"
    /\ conn_error' = "TransportError"
    /\ handler_exc' = "TransportError"
    /\ handler' = "raised"
    /\ UNCHANGED <<event_records, event_i, processed, bulk_calls, logged, runVars,
                   callVars, logVars, toolVars>>

BulkCall(group, rejected) ==
    [rec |-> event_i, index |-> GetIndexName(group.date),
     actions |-> BuildActionsFrom(GetIndexName(group.date), group.records),
     rejected |-> rejected]

\* index_records, lines 41-52: the bulk call of the next group, no document rejected
BulkGroup ==
    /\ handler = "index"
    /\ processed # <<>>
    /\ bulk_calls' = Append(bulk_calls, BulkCall(processed[1], FALSE))
    /\ logged' = Log("INFO", "Indexed successfully")
    /\ processed' = Tail(processed)
    /\ UNCHANGED <<event_records, event_i, handler, conn_error, handler_exc, runVars,
                   callVars, logVars, toolVars>>

\* index_records, line 46: the store rejects a document of the group; called
\* without raise_on_error=False, elasticsearch.helpers.bulk raises
\* BulkIndexError, which no except clause of index_records or of the handler
\* matches
BulkGroupRejected ==
    /\ handler = "index"
    /\ processed # <<>>
    /\ bulk_calls' = Append(bulk_calls, BulkCall(processed[1], TRUE))
    /\ handler_exc' = "BulkIndexError"
    /\ handler' = "raised"
    /\ UNCHANGED <<event_records, event_i, processed, logged, conn_error, runVars,
                   callVars, logVars, toolVars>>

\* the handler without the except clauses of lines 120-126
GeneratorRaisesFatal ==
    /\ handler = "index"
    /\ \A k \in DOMAIN bulk_calls : bulk_calls[k].rec # event_i
    /\ \E e \in {"NoRecordsFoundError", "ClientError"} : handler_exc' = e
    /\ handler' = "raised"
    /\ UNCHANGED <<event_records, event_i, processed, bulk_calls, logged, conn_error,
                   runVars, callVars, logVars, toolVars>>

\* lines 120-126: the generator raises at the first pull of index_records (the
\* object cannot be read, or no record is found in it)
GeneratorRaises ==
    /\ handler = "index"
    /\ \A k \in DOMAIN bulk_calls : bulk_calls[k].rec # event_i
    /\ \E e \in {"NoRecordsFoundError", "ClientError"} :
          logged' = IF e = "ClientError" THEN Log("WARNING", "Error code")
                    ELSE Log("INFO", "Failed to find log records")
    /\ processed' = <<>>
    /\ event_i' = event_i + 1
    /\ handler' = "loop"
    /\ UNCHANGED <<event_records, bulk_calls, conn_error, handler_exc, runVars, callVars,
                   logVars, toolVars>>

\* line 128: index_records returned
Indexed ==
    /\ handler = "index"
    /\ processed = <<>>
    /\ logged' = Log("INFO", "Indexed log records successfully")
    /\ event_i' = event_i + 1
    /\ handler' = "loop"
    /\ UNCHANGED <<event_records, processed, bulk_calls, conn_error, handler_exc, runVars,
                   callVars, logVars, toolVars>>

\* the loop is over: the handler returns
HandlerReturns ==
    /\ handler = "loop"
    /\ event_i > Len(event_records)
    /\ handler' = "returned"
    /\ UNCHANGED <<event_records, event_i, processed, bulk_calls, logged, conn_error,
                   handler_exc, runVars, callVars, logVars, toolVars>>

\* the invocation is over, by return or by exception
Over ==
    /\ handler \in {"returned", "raised"}
    /\ handler' = "idle"
    /\ event_records' = <<>>
    /\ event_i' = 1
    /\ processed' = <<>>
    /\ bulk_calls' = <<>>
    /\ logged' = <<>>
    /\ conn_error' = ""
    /\ handler_exc' = ""
    /\ UNCHANGED <<runVars, callVars, logVars, toolVars>>

NextUpload ==
    \/ Invoke \/ SkipObject \/ LoadRecords \/ Connect \/ ConnectClientError
    \/ ConnectOtherError \/ BulkGroup \/ BulkGroupRejected \/ GeneratorRaises
    \/ Indexed \/ HandlerReturns \/ Over

SpecUpload == Init /\ [][NextUpload]_vars

----------------------------------------------------------------------------
(* json_logging: the context shared by the filters, the formatter, and the  *)
(* context manager log_stack_trace.  A call is made when no call is in      *)
(* progress; LogReturn ends it.                                             *)

MaxKwargs == 2

\* cls._context[field] = value for a field that need not be there
UpdateLoopAnyField(ctx, keywords) ==
    [ctx |-> [f \in DOMAIN ctx \cup {keywords[k].field : k \in DOMAIN keywords} |->
                 IF \E k \in DOMAIN keywords : keywords[k].field = f
                 THEN keywords[CHOOSE k \in DOMAIN keywords : keywords[k].field = f].value
                 ELSE ctx[f]],
     raised |-> ""]

RECURSIVE UpdateLoop(_, _)
\* the loop of update_context over its keywords, in their order
UpdateLoop(ctx, keywords) ==
    IF keywords = <<>> THEN [ctx |-> ctx, raised |-> ""]
    ELSE IF keywords[1].field \in DOMAIN ctx
         THEN UpdateLoop([ctx EXCEPT ![keywords[1].field] = keywords[1].value], Tail(keywords))
         ELSE [ctx |-> ctx, raised |-> "ValueError"]

\* update_from_lambda_context: getattr(context, field, value) for every field
FromLambdaContext(ctx, lambda_context) ==
    [f \in DOMAIN ctx |-> IF f \in DOMAIN lambda_context THEN lambda_context[f] ELSE ctx[f]]

Attribute(attr, value) == [attr |-> attr, value |-> value]

\* logging.LogRecord as Logger.makeRecord builds it: the attributes of the
\* record in the order they are set, then those of extra
MakeRecord(name, levelname, levelno, msg, args, created, relative, extra) ==
    [args |-> args,
     dict |-> <<Attribute("name", Str(name)),
                Attribute("msg", Str(msg)),
                Attribute("args", [t |-> "tuple", s |-> <<>>, n |-> <<Len(args)>>]),
                Attribute("levelname", Str(levelname)),
                Attribute("levelno", IntValue(levelno)),
                Attribute("exc_info", None),
                Attribute("created", [t |-> "float", s |-> <<>>, n |-> <<created.sec, created.ms>>]),
                Attribute("msecs", IntValue(created.ms)),
                Attribute("relativeCreated", [t |-> "float", s |-> <<>>, n |-> relative])>>
             \o extra]

\* the value of an attribute of the record
AttributeOf(dict, attr) == dict[CHOOSE k \in DOMAIN dict : dict[k].attr = attr].value

\* a filter that leaves an attribute of the record as it is
SetAttrIfAbsent(dict, attr, value) ==
    IF \E k \in DOMAIN dict : dict[k].attr = attr THEN dict
    ELSE Append(dict, Attribute(attr, value))

\* setattr(record, field, value)
SetAttr(dict, attr, value) ==
    IF \E k \in DOMAIN dict : dict[k].attr = attr
    THEN [k \in DOMAIN dict |-> IF dict[k].attr = attr THEN Attribute(attr, value) ELSE dict[k]]
    ELSE Append(dict, Attribute(attr, value))

RECURSIVE FilterLoop(_, _, _)
\* ContextFilter.filter: the loop over the fields of the context from field k
FilterLoop(dict, ctx, k) ==
    IF k > Len(ContextOrder) THEN dict
    ELSE FilterLoop(IF ctx[ContextOrder[k]] # None
                    THEN SetAttr(dict, ContextOrder[k], ctx[ContextOrder[k]])
                    ELSE dict,
                    ctx, k + 1)

\* JsonFormatter.attribute_mapping; the empty name stands for None
attribute_mapping ==
    [filename |-> "source.filename", funcName |-> "source.function",
     levelname |-> "log_level", levelno |-> "log_severity",
     lineno |-> "source.line_number", module |-> "source.module", name |-> "logger",
     pathname |-> "source.pathname", process |-> "process.id",
     processName |-> "process.name", threadName |-> "thread.name",
     function_name |-> "lambda.function_name",
     function_version |-> "lambda.function_version",
     invoked_function_arn |-> "lambda.invoked_function_arn",
     log_group_name |-> "cwl.log_group_name", log_stream_name |-> "cwl.log_stream_name",
     args |-> "", created |-> "", msecs |-> "", msg |-> "", relativeCreated |-> "",
     thread |-> ""]

\* assembled[key] = value
Put(assembled, key, value) ==
    [k \in DOMAIN assembled \cup {key} |-> IF k = key THEN value ELSE assembled[k]]

RECURSIVE FormatLoop(_, _)
\* JsonFormatter.format: the loop over record.__dict__
FormatLoop(assembled, dict) ==
    IF dict = <<>> THEN assembled
    ELSE FormatLoop(
             IF dict[1].value = None THEN assembled
             ELSE IF dict[1].attr \in DOMAIN attribute_mapping
                  THEN IF attribute_mapping[dict[1].attr] # ""
                       THEN Put(assembled, attribute_mapping[dict[1].attr], dict[1].value)
                       ELSE assembled
                  ELSE Put(assembled, dict[1].attr, dict[1].value),
             Tail(dict))

RECURSIVE Percent(_, _)
\* msg % args for a message whose only conversions are %s
Percent(msg, args) ==
    IF args = <<>> \/ FindFrom(msg, <<"%", "s">>, 1) = 0 THEN msg
    ELSE Slice(msg, 1, FindFrom(msg, <<"%", "s">>, 1) - 1) \o args[1]
             \o Percent(Slice(msg, FindFrom(msg, <<"%", "s">>, 1) + 2, Len(msg)), Tail(args))

\* LogRecord.getMessage
GetMessage(rec) ==
    IF rec.args # <<>> THEN Percent(AttributeOf(rec.dict, "msg").s, rec.args)
    ELSE AttributeOf(rec.dict, "msg").s

\* int(record.created * 1000.0), in two parts: the thousands of seconds and
\* the milliseconds below them
EpochMillis(created) ==
    [t |-> "int", s |-> <<>>, n |-> <<created[1] \div 1000, (created[1] % 1000) * 1000 + created[2]>>]

\* the dict format assembles, lines 133-153
Assembled(rec) ==
    Put(Put(Put(Put(FormatLoop(EmptyDict, rec.dict),
                    "message", Str(GetMessage(rec))),
                "elapsed_ms", IntValue(AttributeOf(rec.dict, "relativeCreated").n[1])),
            "timestamp", EpochMillis(AttributeOf(rec.dict, "created").n)),
        "gmtime", FromTimestamp(Time(AttributeOf(rec.dict, "created").n[1],
                                     AttributeOf(rec.dict, "created").n[2]), 0))

\* obj.isoformat(timespec="milliseconds") of a time in UTC, with Z for +00:00
IsoFormat(dt) ==
    Decimal(dt.n[1], 4) \o <<"-">> \o Decimal(dt.n[2], 2) \o <<"-">> \o Decimal(dt.n[3], 2)
        \o <<"T">> \o Decimal(dt.n[4], 2) \o <<":">> \o Decimal(dt.n[5], 2) \o <<":">>
        \o Decimal(dt.n[6], 2) \o <<".">> \o Decimal(dt.n[7], 3) \o <<"Z">>

\* DefaultJsonFormat.default for the values json cannot encode
Default(value) == IF value.t = "datetime" THEN Str(IsoFormat(value)) ELSE value

\* JsonFormatter.format, lines 155-163: the object, or the list of the values
\* of the output fields
Format(assembled, fields) ==
    IF fields.is_none
    THEN [kind |-> "object", items |-> <<>>,
          obj |-> [k \in DOMAIN assembled |-> Default(assembled[k])]]
    ELSE [kind |-> "array", obj |-> EmptyDict,
          items |-> [k \in DOMAIN fields.list |-> Default(assembled[fields.list[k]])]]

\* log_stack_trace.__exit__ that returns True
ExitSuppress(exc_type) == [error |-> exc_type # "", returns |-> TRUE]

\* log_stack_trace.__exit__: whether logger.error is called, and its result
Exit(exc_type) == [error |-> exc_type # "", returns |-> FALSE]

Keyword(field, value) == [field |-> field, value |-> value]

\* keywords a caller passes to update_context
Keywords ==
    {Keyword(f, v) : f \in {"request_id", "function_name", "bogus"},
                     v \in {Str(<<"v", "1">>), Str(<<"v", "2">>), None}}

\* **kwargs: keywords with distinct names, in the order they were passed
Kwargs ==
    {q \in SeqsOf(Keywords, MaxKwargs) :
        \A j, k \in DOMAIN q : j # k => q[j].field # q[k].field}

\* objects passed as the context of a Lambda function, by their attributes
LambdaContexts ==
    { [aws_request_id |-> Str(<<"r", "1">>), function_name |-> Str(<<"f", "n">>),
       memory_limit_in_mb |-> IntValue(128)],
      [aws_request_id |-> Str(<<"r", "2">>)],
      [memory_limit_in_mb |-> IntValue(128)] }

\* the extra of a logging call: no attribute of a record, not message, not asctime
Extras ==
    { <<>>,
      <<Attribute("metrics", [t |-> "dict", s |-> <<"c", "o", "u", "n", "t">>, n |-> <<1>>])>>,
      <<Attribute("log_level", Str(<<"x">>))>>,
      <<Attribute("request_id", Str(<<"o", "w", "n">>))>>,
      <<Attribute("function_name", Str(<<"a">>)),
        Attribute("lambda.function_name", Str(<<"x">>))>>,
      <<Attribute("elapsed_ms", IntValue(5)), Attribute("timestamp", IntValue(7)),
        Attribute("gmtime", None)>> }

\* the message of a logging call, its arguments, and the text they stand for
Message(msg, args, text) == [msg |-> msg, args |-> args, text |-> text]

Messages ==
    { Message(<<"H", "e", "l", "l", "o">>, <<>>, <<"H", "e", "l", "l", "o">>),
      Message(<<"n", "=", "%", "s", "!">>, << <<"9", "9">> >>,
              <<"n", "=", "9", "9", "!">>) }

Level(levelname, levelno) == [levelname |-> levelname, levelno |-> levelno]

Levels == {Level(<<"I", "N", "F", "O">>, 20), Level(<<"W", "A", "R", "N", "I", "N", "G">>, 30)}

\* the filter instances of the process: the handler's and another one
Filters == {1, 2}

\* record.created and record.relativeCreated (milliseconds and microseconds),
\* with the time of creation as text, in milliseconds (thousands of seconds,
\* and the rest), and the whole milliseconds elapsed
Clocks ==
    { [created |-> T_JanEnd, relative |-> <<1500, 750>>,
       iso |-> <<"2", "0", "2", "1", "-", "0", "1", "-", "3", "1", "T", "2", "3", ":", "5", "9", ":", "5", "9", ".", "9", "9", "9", "Z">>,
       millis |-> <<1612137, 599999>>, elapsed |-> 1500],
      [created |-> T_FebMid, relative |-> <<0, 999>>,
       iso |-> <<"2", "0", "2", "1", "-", "0", "2", "-", "1", "4", "T", "1", "2", ":", "0", "0", ":", "0", "0", ".", "2", "5", "0", "Z">>,
       millis |-> <<1613304, 250>>, elapsed |-> 0] }

\* what the callers asked for: the keywords of update_context up to the first
\* unknown one
RECURSIVE Asked(_, _)
Asked(req, keywords) ==
    IF keywords = <<>> \/ keywords[1].field \notin DOMAIN req THEN req
    ELSE Asked([req EXCEPT ![keywords[1].field] = keywords[1].value], Tail(keywords))

UpdateContext ==
    /\ op = ""
    /\ \E kw \in Kwargs :
          /\ kwargs' = kw
          /\ context' = UpdateLoop(context, kw).ctx
          /\ raised' = UpdateLoop(context, kw).raised
          /\ requested' = Asked(requested, kw)
    /\ op' = "update_context"
    /\ before' = context
    /\ UNCHANGED <<output_fields, emitted, output, n_logged, propagated>>
    /\ UNCHANGED <<runVars, callVars, upVars, toolVars>>

UpdateFromLambdaContext ==
    /\ op = ""
    /\ \E lambda_context \in LambdaContexts :
          /\ context' = FromLambdaContext(context, lambda_context)
          /\ requested' = [f \in DOMAIN requested |->
                              IF f \in DOMAIN lambda_context THEN lambda_context[f]
                              ELSE requested[f]]
    /\ op' = "update_from_lambda_context"
    /\ before' = context
    /\ UNCHANGED <<output_fields, kwargs, raised, emitted, output, n_logged, propagated>>
    /\ UNCHANGED <<runVars, callVars, upVars, toolVars>>

\* set_output_format(terse=...)
SetOutputFormat ==
    /\ op = ""
    /\ \E terse \in BOOLEAN : output_fields' = IF terse THEN TerseFields ELSE NoFields
    /\ op' = "set_output_format"
    /\ UNCHANGED <<context, requested, kwargs, before, raised, emitted, output, n_logged,
                   propagated>>
    /\ UNCHANGED <<runVars, callVars, upVars, toolVars>>

\* logger.info(msg, *args, extra=extra) and the like: the record is made,
\* passes a filter of the handler and is formatted
Emit ==
    /\ op = ""
    /\ \E inst \in Filters, m \in Messages, lv \in Levels, ck \in Clocks, extra \in Extras :
          /\ emitted' = [inst |-> inst, extra |-> extra, call |-> <<m, lv, ck>>,
                         rec |-> MakeRecord(<<"u">>, lv.levelname, lv.levelno, m.msg, m.args,
                                            ck.created, ck.relative, extra)]
          /\ output' = Format(Assembled([args |-> m.args,
                                         dict |-> FilterLoop(emitted'.rec.dict, context, 1)]),
                              output_fields)
    /\ op' = "log"
    /\ n_logged' = 1
    /\ UNCHANGED <<context, output_fields, requested, kwargs, before, raised, propagated>>
    /\ UNCHANGED <<runVars, callVars, upVars, toolVars>>

\* with log_stack_trace(logger): a body that returns or raises
WithLogStackTrace ==
    /\ op = ""
    /\ \E body \in {"", "RuntimeError", "KeyError"}, ck \in Clocks :
          /\ raised' = body
          /\ n_logged' = IF Exit(body).error THEN 1 ELSE 0
          /\ propagated' = IF body # "" /\ ~Exit(body).returns THEN body ELSE ""
          /\ emitted' =
                IF Exit(body).error
                THEN [inst |-> 1, call |-> <<ck>>,
                      extra |-> <<Attribute("stack_trace",
                                            [t |-> "list", s |-> <<body>>, n |-> <<>>])>>,
                      rec |-> MakeRecord(<<"u">>, <<"E", "R", "R", "O", "R">>, 40, <<body>>, <<>>,
                                         ck.created, ck.relative,
                                         <<Attribute("stack_trace",
                                                     [t |-> "list", s |-> <<body>>, n |-> <<>>])>>)]
                ELSE NoEmit
          /\ output' =
                IF Exit(body).error
                THEN Format(Assembled([args |-> <<>>,
                                       dict |-> FilterLoop(emitted'.rec.dict, context, 1)]),
                            output_fields)
                ELSE NoOutput
    /\ op' = "log_stack_trace"
    /\ UNCHANGED <<context, output_fields, requested, kwargs, before>>
    /\ UNCHANGED <<runVars, callVars, upVars, toolVars>>

\* the call is over
LogReturn ==
    /\ op # ""
    /\ op' = ""
    /\ kwargs' = <<>>
    /\ before' = InitialContext
    /\ raised' = ""
    /\ emitted' = NoEmit
    /\ output' = NoOutput
    /\ n_logged' = 0
    /\ propagated' = ""
    /\ UNCHANGED <<context, output_fields, requested>>
    /\ UNCHANGED <<runVars, callVars, upVars, toolVars>>

NextLog ==
    \/ UpdateContext \/ UpdateFromLambdaContext \/ SetOutputFormat \/ Emit
    \/ WithLogStackTrace \/ LogReturn

SpecLog == Init /\ [][NextLog]_vars

----------------------------------------------------------------------------
(* backfill_logfiles.main: the objects of the bucket are listed, and a pool *)
(* of threads calls invoke_log_parser once for every listed object          *)

MaxObjects == 3

MaxThreads == 2

\* an entry of response["Contents"]: recent when LastModified > earliest
Content(key, recent) == [key |-> key, recent |-> recent]

Contents ==
    { Content(<<"_", "l", "o", "g", "s", "/", "a">>, TRUE),
      Content(<<"_", "l", "o", "g", "s", "/", "b">>, TRUE),
      Content(<<"_", "l", "o", "g", "s", "/", "c">>, TRUE),
      Content(<<"_", "l", "o", "g", "s", "/", "o", "l", "d">>, FALSE) }

\* list(list_objects(...)): the tuples (key, modified time) of the recent objects
ListObjects(listing) ==
    [k \in DOMAIN SelectSeq(listing, LAMBDA info : info.recent) |->
        [t |-> "tuple", s |-> SelectSeq(listing, LAMBDA info : info.recent)[k].key, n |-> <<>>]]

\* the default of the parameter event_time, evaluated when the function is
\* defined: datetime.utcnow().isoformat(), a str
DefaultEventTime == Str(<<"2", "0", "2", "1", "-", "0", "2", "-", "1", "5", "T", "1", "2">>)

\* invoke_log_parser up to client.invoke: the payload is built, event_time
\* first, then the quoted object key
InvokeLogParser(object_key, event_time) ==
    IF event_time.t # "datetime" THEN [raised |-> "AttributeError", invoked |-> <<>>]
    ELSE IF object_key.t # "str" THEN [raised |-> "TypeError", invoked |-> <<>>]
    ELSE [raised |-> "", invoked |-> <<object_key.s>>]

\* main up to the end of executor.map: every call is submitted; with no
\* object, ThreadPoolExecutor(max_workers=0) raises ValueError
BackfillMain ==
    /\ driver = "idle"
    /\ \E listing \in SeqsOf(Contents, MaxObjects), limit \in 1..MaxThreads :
          /\ listing # <<>>
          /\ object_keys' = ListObjects(listing)
          /\ max_threads' = limit
          /\ threads' = IF Len(object_keys') < limit THEN Len(object_keys') ELSE limit
    /\ IF threads' > 0
       THEN /\ driver' = "waiting"
            /\ driver_exc' = ""
            /\ futures' = [k \in DOMAIN object_keys' |-> "pending"]
       ELSE /\ driver' = "raised"
            /\ driver_exc' = "ValueError"
            /\ futures' = <<>>
    /\ invocations' = <<>>
    /\ UNCHANGED <<runVars, callVars, upVars, logVars, cfgVars>>

\* a thread of the pool takes the next call from the queue
WorkerTake ==
    /\ driver = "waiting"
    /\ Cardinality({k \in DOMAIN futures : futures[k] = "running"}) < threads
    /\ \E k \in DOMAIN futures :
          /\ futures[k] = "pending"
          /\ \A j \in 1..(k - 1) : futures[j] # "pending"
          /\ futures' = [futures EXCEPT ![k] = "running"]
    /\ UNCHANGED <<driver, driver_exc, object_keys, max_threads, threads, invocations>>
    /\ UNCHANGED <<runVars, callVars, upVars, logVars, cfgVars>>

\* the call of invoke_log_parser in a thread ends: the Lambda function was
\* invoked, or the exception is kept in the future, which nobody reads
WorkerRun ==
    /\ driver = "waiting"
    /\ \E k \in DOMAIN futures :
          /\ futures[k] = "running"
          /\ futures' = [futures EXCEPT
                            ![k] = IF InvokeLogParser(object_keys[k], DefaultEventTime).raised = ""
                                   THEN "returned"
                                   ELSE InvokeLogParser(object_keys[k], DefaultEventTime).raised]
          /\ invocations' =
                invocations \o InvokeLogParser(object_keys[k], DefaultEventTime).invoked
    /\ UNCHANGED <<driver, driver_exc, object_keys, max_threads, threads>>
    /\ UNCHANGED <<runVars, callVars, upVars, logVars, cfgVars>>

\* the with statement ends, shutdown(wait=True): every call is over
BackfillReturn ==
    /\ driver = "waiting"
    /\ \A k \in DOMAIN futures : futures[k] \notin {"pending", "running"}
    /\ driver' = "returned"
    /\ UNCHANGED <<driver_exc, object_keys, max_threads, threads, futures, invocations>>
    /\ UNCHANGED <<runVars, callVars, upVars, logVars, cfgVars>>

\* the process of the driver is over
BackfillOver ==
    /\ driver \in {"returned", "raised"}
    /\ driver' = "idle"
    /\ driver_exc' = ""
    /\ object_keys' = <<>>
    /\ max_threads' = 1
    /\ threads' = 0
    /\ futures' = <<>>
    /\ invocations' = <<>>
    /\ UNCHANGED <<runVars, callVars, upVars, logVars, cfgVars>>

NextBackfill == BackfillMain \/ WorkerTake \/ WorkerRun \/ BackfillReturn \/ BackfillOver

SpecBackfill == Init /\ [][NextBackfill]_vars

----------------------------------------------------------------------------
(* config.sub_delete_stale_indices: the indices of the cluster that are not *)
(* allowable are shown, and deleted when the operator agrees                *)

OLDEST_INDEX_IN_DAYS == 380

\* get_index_name(date) for a date: strftime with dw-logs-%Y-%m
GetIndexNameOfDate(ymd) ==
    <<"d", "w", "-", "l", "o", "g", "s", "-">>
        \o Decimal(ymd[1], 4) \o <<"-">> \o Decimal(ymd[2], 2)

\* get_allowable_indices with one day less: range(0, 379)
GetAllowableIndicesShort(day) ==
    {GetIndexNameOfDate(CivilFromDays(day - days)) : days \in 0..(OLDEST_INDEX_IN_DAYS - 2)}

\* get_allowable_indices, today being the given day (in days since 1970-01-01)
GetAllowableIndices(day) ==
    {GetIndexNameOfDate(CivilFromDays(day - days)) : days \in 0..(OLDEST_INDEX_IN_DAYS - 1)}

\* the days the tool is run on: 2021-03-14, 379 days after 2020-02-29, and
\* 2021-03-20
Todays == {18700, 18706}

\* names of indices a cluster may hold
IndexPool ==
    { <<"d", "w", "-", "l", "o", "g", "s", "-", "2", "0", "2", "1", "-", "0", "2">>,
      <<"d", "w", "-", "l", "o", "g", "s", "-", "2", "0", "2", "0", "-", "0", "3">>,
      <<"d", "w", "-", "l", "o", "g", "s", "-", "2", "0", "2", "0", "-", "0", "2">>,
      <<"d", "w", "-", "l", "o", "g", "s", "-", "2", "0", "2", "0", "-", "0", "1">>,
      <<"d", "w", "-", "l", "o", "g", "s", "-", "2", "0", "2", "1", "-", "0", "4">> }

Answers ==
    { Answer(TRUE, <<>>), Answer(FALSE, <<>>), Answer(FALSE, <<"y">>),
      Answer(FALSE, <<"y", "e", "s">>), Answer(FALSE, <<"Y">>),
      Answer(FALSE, <<"Y", "e", "s">>), Answer(FALSE, <<"n">>),
      Answer(FALSE, <<"y", "e", "s", " ">>), Answer(FALSE, <<"y", "e">>) }

\* lines 227-231: proceed is the line, "n" at the end of input
Proceeds(reply) == Lower(IF reply.eof THEN <<"n">> ELSE reply.line) \in {<<"y">>, <<"y", "e", "s">>}

\* lines 218-227: the stale indices are found and shown; with none the tool
\* returns, otherwise it waits for the operator's line
StaleStart ==
    /\ cli = "idle"
    /\ \E day \in Todays, indices \in SUBSET IndexPool :
          /\ today' = day
          /\ current' = indices
          /\ stale' = indices \ GetAllowableIndices(day)
    /\ cli' = IF stale' = {} THEN "returned" ELSE "input"
    /\ UNCHANGED <<answer, delete_requests>>
    /\ UNCHANGED <<runVars, callVars, upVars, logVars, bfVars>>

\* lines 227-233: the operator's line is read; on y or yes the stale indices
\* are deleted in one request
StaleAnswer ==
    /\ cli = "input"
    /\ \E reply \in Answers :
          /\ answer' = reply
          /\ delete_requests' = IF Proceeds(reply) THEN <<stale>> ELSE <<>>
    /\ cli' = "returned"
    /\ UNCHANGED <<today, current, stale>>
    /\ UNCHANGED <<runVars, callVars, upVars, logVars, bfVars>>

\* the process of the tool is over
StaleOver ==
    /\ cli = "returned"
    /\ cli' = "idle"
    /\ today' = 0
    /\ current' = {}
    /\ stale' = {}
    /\ answer' = NoAnswer
    /\ delete_requests' = <<>>
    /\ UNCHANGED <<runVars, callVars, upVars, logVars, bfVars>>

NextStale == StaleStart \/ StaleAnswer \/ StaleOver

SpecStale == Init /\ [][NextStale]_vars

----------------------------------------------------------------------------
(* Properties of a run of parse_log_events                                 *)

\* the event the i-th action of the current run was built from
EventOfAction(i) == log_data.logEvents[built_from[i]]

\* the events the generator has gone through
Passed == IF gen = "raised" THEN 1..pos ELSE 1..(pos - 1)

BeginsLifecycle(message) == StartsWith(message, P_START) \/ StartsWith(message, P_END)

RECURSIVE SelectNot(_, _)
\* the positions of q, in order, whose message is no lifecycle line, from position i on
SelectNot(q, i) ==
    IF i > Len(q) THEN <<>>
    ELSE IF BeginsLifecycle(q[i].message) THEN SelectNot(q, i + 1)
    ELSE <<i>> \o SelectNot(q, i + 1)

\* C1 (as claimed): parse_log_events never raises, whatever the messages of the
\* batch: every event is filtered out or yields one action, and the events
\* after it are still processed.
C1_NeverRaises == gen # "raised"

\* C2: no action carries the id of an event of the batch whose message begins
\* with a lifecycle marker (START RequestId, END RequestId).
C2_NoLifecycleAction ==
    \A i \in DOMAIN bulk_payload : \A j \in DOMAIN log_data.logEvents :
        BeginsLifecycle(log_data.logEvents[j].message)
            => bulk_payload[i]._id # log_data.logEvents[j].id

\* a lifecycle event was passed in a run that yielded an action
C2_Witness ==
    /\ gen = "done"
    /\ bulk_payload # <<>>
    /\ \E j \in DOMAIN log_data.logEvents : BeginsLifecycle(log_data.logEvents[j].message)

\* C3 (as claimed): once the run of a batch has ended, its actions are exactly
\* one per event that is no lifecycle line, in the order of the events, each with
\* _op_type "index" and the _id of its event.
C3_OneActionPerEvent ==
    gen \in {"done", "raised"} =>
        /\ built_from = SelectNot(log_data.logEvents, 1)
        /\ \A i \in DOMAIN bulk_payload :
              /\ bulk_payload[i]._op_type = "index"
              /\ bulk_payload[i]._id = EventOfAction(i).id

\* C4 (as claimed): in every emitted record @timestamp and the three context
\* fields hold the values of the event's timestamp and of the batch's owner,
\* logGroup and logStream, whatever keys the payload has.
C4_ContextKept ==
    \A i \in DOMAIN bulk_payload :
        LET src == bulk_payload[i]._source IN
        /\ src[K_at_timestamp] = FromTimestamp(EventOfAction(i).timestamp, utc_offset)
        /\ src[K_aws_account] = Str(log_data.owner)
        /\ src[K_log_group] = Str(log_data.logGroup)
        /\ src[K_log_stream] = Str(log_data.logStream)

\* the top-level keys of a message that is a strictly valid JSON object
IsObject(message) == JsonLoads(message).ok /\ JsonLoads(message).kind = "dict"

TopLevelKeys(message) ==
    LET ms == MembersAt(message, JsonLoads(message).start) IN {ms[i][1] : i \in DOMAIN ms}

\* C5: the record of an event whose message is a strictly valid JSON object has
\* every top-level key of that object as a field.
C5_ObjectKeysKept ==
    \A i \in DOMAIN bulk_payload :
        IsObject(EventOfAction(i).message)
            => TopLevelKeys(EventOfAction(i).message) \subseteq DOMAIN bulk_payload[i]._source

\* an action was built from an object with several keys
C5_Witness ==
    \E i \in DOMAIN bulk_payload :
        /\ IsObject(EventOfAction(i).message)
        /\ Cardinality(TopLevelKeys(EventOfAction(i).message)) >= 2

\* C7: two runs over the same event with the same stream context give actions
\* with the same _id and the same _source, whatever other events surround it.
C7_SameEventSameAction ==
    \A i \in DOMAIN bulk_payload :
        (/\ kept # <<>>
         /\ kept[1].event = EventOfAction(i)
         /\ kept[1].stream = LogData(log_data, <<>>))
            => /\ bulk_payload[i]._id = kept[1].action._id
               /\ bulk_payload[i]._source = kept[1].action._source

\* the kept action's event was parsed again, at another place of another batch
C7_Witness ==
    /\ kept # <<>>
    /\ Len(bulk_payload) = 2
    /\ kept[1].event = EventOfAction(2)
    /\ Len(log_data.logEvents) = 2
    /\ IsObject(log_data.logEvents[1].message)

\* the calendar month (year, month) of an event's timestamp in the process's zone
MonthOf(event) ==
    <<FromTimestamp(event.timestamp, utc_offset).n[1],
      FromTimestamp(event.timestamp, utc_offset).n[2]>>

\* index is the prefix cw-logs- followed by the year and month ym as YYYY-MM
NamesMonth(index, ym) ==
    /\ Len(index) = 15
    /\ SubSeq(index, 1, 8) = <<"c", "w", "-", "l", "o", "g", "s", "-">>
    /\ \A k \in {9, 10, 11, 12, 14, 15} : index[k] \in Digits
    /\ DigitsValue(SubSeq(index, 9, 12)) = ym[1]
    /\ index[13] = "-"
    /\ DigitsValue(SubSeq(index, 14, 15)) = ym[2]

\* C8: the _index of an action is the prefix followed by the year and month of
\* its event's timestamp; two actions, of one run or of two runs at different
\* wall-clock times, have the same _index exactly when their events fall in the
\* same calendar month.
C8_IndexOfMonth ==
    \A i \in DOMAIN bulk_payload :
        /\ NamesMonth(bulk_payload[i]._index, MonthOf(EventOfAction(i)))
        /\ \A j \in DOMAIN bulk_payload :
              (MonthOf(EventOfAction(i)) = MonthOf(EventOfAction(j)))
                  <=> (bulk_payload[i]._index = bulk_payload[j]._index)
        /\ kept # <<>> =>
              ((MonthOf(EventOfAction(i)) = MonthOf(kept[1].event))
                  <=> (bulk_payload[i]._index = kept[1].action._index))

\* two events of one month and one of another month, in two runs
C8_Witness ==
    /\ kept # <<>>
    /\ Len(bulk_payload) = 2
    /\ EventOfAction(1).message # EventOfAction(2).message
    /\ bulk_payload[1]._index = bulk_payload[2]._index
    /\ bulk_payload[1]._index # kept[1].action._index
    /\ MonthOf(kept[1].event)[2] = MonthOf(EventOfAction(1))[2]

\* C9: every message is handled by exactly one branch, chosen by its prefix:
\* a lifecycle line gives no action; a report line is handled by the report
\* parser and an error line by the error parser (the record has their
\* log_type and no parse marker); any other message is handled by the payload
\* parser; and an exception that ends the run comes from the report parser
\* or from the merge of a payload, never from a lifecycle or error line.
C9_OneBranchPerMessage ==
    /\ \A i \in DOMAIN bulk_payload :
          LET m == EventOfAction(i).message
              src == bulk_payload[i]._source
          IN /\ ~BeginsLifecycle(m)
             /\ StartsWith(m, P_REPORT) =>
                   /\ K_log_type \in DOMAIN src
                   /\ src[K_log_type] = Str(T_REPORT)
                   /\ K_cwl_parser_exception \notin DOMAIN src
             /\ StartsWith(m, P_ERROR) =>
                   /\ K_log_type \in DOMAIN src
                   /\ src[K_log_type] = Str(T_ERROR)
                   /\ K_cwl_parser_exception \notin DOMAIN src
             /\ (~StartsWith(m, P_REPORT) /\ ~StartsWith(m, P_ERROR)) =>
                   \A k \in DOMAIN UpdateOutcome(ParseSingleEvent(m)).dict :
                       k \in DOMAIN src
    /\ \A j \in Passed \ {built_from[i] : i \in DOMAIN built_from} :
          \/ BeginsLifecycle(log_data.logEvents[j].message)
          \/ gen = "raised" /\ j = pos /\ ~StartsWith(log_data.logEvents[j].message, P_ERROR)

\* an error line and a payload were handled in one run
C9_Witness ==
    /\ Len(bulk_payload) = 2
    /\ StartsWith(EventOfAction(1).message, P_ERROR)
    /\ ~StartsWith(EventOfAction(2).message, P_REPORT)
    /\ ~StartsWith(EventOfAction(2).message, P_ERROR)

\* the message went to the payload parser and json.loads raised on it
StrictParseFailed(message) ==
    /\ ~BeginsLifecycle(message)
    /\ ~StartsWith(message, P_REPORT)
    /\ ~StartsWith(message, P_ERROR)
    /\ ~JsonLoads(message).ok

K_parse_exception == <<"p", "a", "r", "s", "e", "_", "e", "x", "c", "e", "p", "t", "i", "o", "n">>

\* a strict-parse failure is not propagated and its record has a non-empty
\* field named marker next to the recovered fields or, when there are none,
\* the raw message
MarkedRecovery(marker) ==
    /\ gen = "raised" => ~StrictParseFailed(log_data.logEvents[pos].message)
    /\ \A i \in DOMAIN bulk_payload :
          LET m == EventOfAction(i).message
              src == bulk_payload[i]._source
          IN StrictParseFailed(m) =>
                /\ marker \in DOMAIN src
                /\ src[marker].t = "str"
                /\ src[marker].s # <<>>
                /\ DOMAIN ParseDirtyJson(m) \subseteq DOMAIN src
                /\ DOMAIN ParseDirtyJson(m) = {} => src[K_message] = Str(m)

\* C10 (as claimed): when strict parsing of a payload fails, the parser still
\* returns a record, which carries a non-empty field parse_exception.
C10_ParseException == MarkedRecovery(K_parse_exception)

\* C10 (amended): when strict parsing of a payload fails, the parser still
\* returns a record, which carries a non-empty field cwl_parser_exception
\* next to the recovered fields (or the raw message).
C10_CwlParserException == MarkedRecovery(K_cwl_parser_exception)

\* a record with recovered fields and one with the raw message only
C10_Witness ==
    /\ Len(bulk_payload) = 2
    /\ StrictParseFailed(EventOfAction(1).message)
    /\ StrictParseFailed(EventOfAction(2).message)
    /\ DOMAIN ParseDirtyJson(EventOfAction(1).message) # {}
    /\ DOMAIN ParseDirtyJson(EventOfAction(2).message) = {}

----------------------------------------------------------------------------
(* Properties of the index store under repeated deliveries                 *)

\* the store holds one document per event it has indexed, and is the store
\* after one delivery, alone, of each of these events
C6_StoreOfOnce ==
    /\ \A k1, k2 \in DOMAIN store : k1[2] = k2[2] => k1 = k2
    /\ {k[2] : k \in DOMAIN store} = delivered
    /\ store = once

\* a step never removes a document from the store
C6_NoRetraction == \A k \in DOMAIN store : k \in DOMAIN store'

\* C6: after any sequence of deliveries (repeated, interleaved, cut short) the
\* store holds at most one document per event id and equals the store after
\* delivering each delivered event exactly once; no step retracts a document.
C6_IdempotentStore == [](C6_StoreOfOnce) /\ [][C6_NoRetraction]_vars

\* a delivery that went on after a rejection is about to index again the
\* document of an event that an earlier delivery indexed
C6_Witness ==
    /\ gen = "done"
    /\ Len(bulk_payload) = 2
    /\ sent = 1
    /\ errors = 1
    /\ DocKey(bulk_payload[2]) \in DOMAIN store
    /\ DocKey(bulk_payload[1]) \in DOMAIN store
    /\ Cardinality(DOMAIN store) >= 3

----------------------------------------------------------------------------
(* Properties of the recovery parser, called directly or by                *)
(* _parse_single_event                                                     *)

\* the position of the first candidate with the key message, or past the end
FirstMessage(q) ==
    IF \E i \in DOMAIN q : q[i].key = K_message
    THEN CHOOSE i \in DOMAIN q :
             q[i].key = K_message /\ \A j \in 1..(i - 1) : q[j].key # K_message
    ELSE Len(q) + 1

\* the candidates that have a key and come before the first key message
Contributing(q) == {i \in 1..(FirstMessage(q) - 1) : q[i].key # <<>>}

\* the name a candidate's value is to be stored under
StoredKey(c) == IF c.key = K_timestamp THEN K_log_record_timestamp ELSE c.key

RecoveredBy(name) ==
    IF name = "_parse_dirty_json" THEN ret
    ELSE [k \in DOMAIN ret.dict \ {K_message, K_cwl_parser_exception} |-> ret.dict[k]]

Recovering ==
    \/ called = "_parse_dirty_json"
    \/ called = "_parse_single_event" /\ StrictParseFailed(arg)

\* C11: _parse_dirty_json returns a field set for every text, empty when no
\* candidate has a key and a value; _parse_single_event, when strict parsing
\* fails, stores the raw text under message exactly when the recovered set is
\* empty, and the marker in both cases.
C11_RecoveryTotal ==
    /\ called = "_parse_dirty_json" =>
          /\ (\A i \in DOMAIN parts : parts[i].key = <<>>) => DOMAIN ret = {}
          /\ (DOMAIN ret = {}) <=> (Contributing(parts) = {})
    /\ (called = "_parse_single_event" /\ StrictParseFailed(arg)) =>
          /\ ret.kind = "dict"
          /\ K_cwl_parser_exception \in DOMAIN ret.dict
          /\ ret.dict[K_cwl_parser_exception].s # <<>>
          /\ (Contributing(parts) = {}) <=> (K_message \in DOMAIN ret.dict)
          /\ K_message \in DOMAIN ret.dict =>
                /\ ret.dict[K_message] = Str(arg)
                /\ DOMAIN ret.dict = {K_message, K_cwl_parser_exception}

\* a text of two candidates without a key, stored raw by _parse_single_event
C11_Witness ==
    /\ called = "_parse_single_event"
    /\ Len(parts) = 2
    /\ \A i \in DOMAIN parts : parts[i].key = <<>>
    /\ ret.dict[K_message] = Str(arg)

\* C12: the recovered fields are those of the candidates before the first key
\* message, and none is named message: a candidate after that key adds nothing,
\* in _parse_dirty_json and in the record _parse_single_event builds from it.
C12_StopsAtMessage ==
    Recovering =>
        /\ DOMAIN RecoveredBy(called) = {StoredKey(parts[i]) : i \in Contributing(parts)}
        /\ called = "_parse_dirty_json" => K_message \notin DOMAIN ret

\* the pair extra follows the key message and is not in the returned fields
C12_Witness ==
    /\ called = "_parse_dirty_json"
    /\ Len(parts) = 3
    /\ parts[2].key = K_message
    /\ parts[3].key = <<"e", "x", "t", "r", "a">>
    /\ DOMAIN ret = {parts[1].key}

\* the last contributing candidate with the key timestamp
LastTimestamp(q) ==
    CHOOSE i \in Contributing(q) :
        /\ q[i].key = K_timestamp
        /\ \A j \in Contributing(q) : q[j].key = K_timestamp => j <= i

\* C13 (as claimed): no recovered field is named timestamp; a candidate with
\* the key timestamp before any key message is stored under
\* log_record_timestamp with its value, the text after its first ": ".
C13_TimestampRenamed ==
    Recovering =>
        /\ K_timestamp \notin DOMAIN RecoveredBy(called)
        /\ (\E i \in Contributing(parts) : parts[i].key = K_timestamp) =>
              /\ K_log_record_timestamp \in DOMAIN RecoveredBy(called)
              /\ RecoveredBy(called)[K_log_record_timestamp]
                     = Str(parts[LastTimestamp(parts)].val)

----------------------------------------------------------------------------
(* Properties of the report parser and of the error parser                 *)

Kinds(q) == {q[i].kind : i \in DOMAIN q}

\* the report fields the well-formed fields of q denote
FieldsOf(q) == {q[i].field : i \in {j \in DOMAIN q : q[j].kind = "known"}}

\* the report holds, for every well-formed field of q, the value it denotes,
\* and has no other field than these, message and log_type
HoldsFieldsOf(report, q) ==
    /\ DOMAIN report = {K_message, K_log_type} \cup FieldsOf(q)
    /\ \A i \in DOMAIN q :
          (q[i].kind = "known" /\ \A j \in DOMAIN q : q[j].field = q[i].field => j <= i)
              => report[q[i].field] = q[i].val

\* C14: for a report line of well-formed fields with known keys, the report has
\* the request id as text, each duration as a number of milliseconds and each
\* memory size as an integer of megabytes, without the unit, and no field for
\* a known key that is not in the line.
C14_TypedFields ==
    (called = "_parse_control_message" /\ Kinds(parts) = {"known"}) =>
        /\ ~ret.raised
        /\ HoldsFieldsOf(ret.report, parts)

\* a line with a duration and a memory size
C14_Witness ==
    /\ called = "_parse_control_message"
    /\ Len(parts) = 3
    /\ Kinds(parts) = {"known"}
    /\ K_duration_in_ms \in DOMAIN ret.report
    /\ ret.report[K_duration_in_ms].t = "float"
    /\ K_memory_size_in_mb \in DOMAIN ret.report
    /\ ret.report[K_memory_size_in_mb].t = "int"

\* C15 (as claimed): a field with an unknown key, whatever its text, is ignored:
\* the parser does not fail and returns the report of the other fields.
C15_UnknownIgnored ==
    (called = "_parse_control_message" /\ Kinds(parts) = {"known", "unknown"}) =>
        /\ ~ret.raised
        /\ HoldsFieldsOf(ret.report, parts)

\* C16 (as claimed): a known numeric field whose value does not convert is left
\* out, and the report still has all the other fields.
C16_SkipsBadNumber ==
    (called = "_parse_control_message" /\ Kinds(parts) = {"known", "unparsable"}) =>
        /\ ~ret.raised
        /\ HoldsFieldsOf(ret.report, parts)

\* C17 (as claimed): the report has log_type REPORT and, as message, the line
\* character for character, leading and trailing whitespace included.
C17_MessageVerbatim ==
    (called = "_parse_control_message" /\ ~ret.raised) =>
        /\ ret.report[K_log_type] = Str(T_REPORT)
        /\ ret.report[K_message] = Str(arg)

\* C18: the error parser returns log_type ERROR and, as message, the text
\* before the first newline (all of it when there is none), and nothing else.
C18_FirstLineOnly ==
    called = "_parse_error_message" =>
        /\ DOMAIN ret = {K_log_type, K_message}
        /\ ret[K_log_type] = Str(T_ERROR)
        /\ ret[K_message] = Str(IF parts = <<>> THEN <<>> ELSE parts[1])

\* an error message of several lines
C18_Witness ==
    /\ called = "_parse_error_message"
    /\ Len(parts) = 3
    /\ parts[1] # <<>>
    /\ ret[K_message] = Str(parts[1])

----------------------------------------------------------------------------
(* Properties of an invocation of upload.lambda_handler                     *)

\* C19: when the index store rejects documents of a bulk call, the rejection
\* is returned as data and logged; the caller sees no exception, and
\* index_records goes on to the bulk calls of the later date groups.
C19_RejectionsAsData ==
    \A k \in DOMAIN bulk_calls :
        bulk_calls[k].rejected => handler # "raised" /\ handler_exc = ""

LastLogged == logged[Len(logged)]

FailedInInitialConnection ==
    /\ logged # <<>>
    /\ LastLogged = [i |-> event_i, level |-> "ERROR", msg |-> "Failed in initial connection"]

\* C20, as claimed: every error raised while the endpoint is looked up, the
\* client is made or the index template is checked or put is logged by the
\* handler before it is raised to the caller.
C20_LoggedAndReraised == conn_error # "" => FailedInInitialConnection

\* the error reached the caller, and no bulk call was made for the record at
\* hand nor for a later one
FatalAt ==
    /\ handler = "raised"
    /\ handler_exc = conn_error
    /\ \A k \in DOMAIN bulk_calls : bulk_calls[k].rec < event_i

\* after the error the invocation does nothing but end: no second attempt
NoRetry == conn_error # "" => handler' = "idle" /\ bulk_calls' = <<>>

\* C20: an error raised while the endpoint is looked up, the client is made or
\* the index template is checked or put is raised to the caller of the handler;
\* it is logged first when it is a ClientError; the connection is not tried
\* again, and no bulk call is made for that record nor for a later record of
\* the event.
C20_ConnectionFailureFatal ==
    /\ [](conn_error # "" => FatalAt)
    /\ [](conn_error = "ClientError" => FailedInInitialConnection)
    /\ [][NoRetry]_vars

\* a ClientError at the second record, after the first record was indexed
C20_Witness ==
    /\ conn_error = "ClientError"
    /\ handler = "raised"
    /\ event_i = 2
    /\ bulk_calls # <<>>
    /\ FailedInInitialConnection

----------------------------------------------------------------------------
(* The split of a candidate in the recovery parser                          *)

\* the last contributing candidate stored under the name of candidate i
LastStored(q, i) ==
    \A j \in Contributing(q) : StoredKey(q[j]) = StoredKey(q[i]) => j <= i

\* C25: every candidate is split once on ": ": the key is the text before the
\* first ": ", the stored value is all of the text after it; a candidate
\* without ": " or with an empty key yields no field.
C25_SplitOnce ==
    called = "_parse_dirty_json" =>
        /\ DOMAIN ret = {StoredKey(parts[i]) : i \in Contributing(parts)}
        /\ \A i \in Contributing(parts) :
              LastStored(parts, i) => ret[StoredKey(parts[i])] = Str(parts[i].val)

----------------------------------------------------------------------------
(* Properties of index_records and of the loop over the records of an event *)

\* the bulk calls made for record i of the event, in the order they were made
CallsOf(i) == SelectSeq(bulk_calls, LAMBDA c : c.rec = i)

RECURSIVE Submitted(_)
\* the actions of a sequence of bulk calls, one after the other
Submitted(calls) ==
    IF calls = <<>> THEN <<>> ELSE calls[1].actions \o Submitted(Tail(calls))

\* index_records returned for record i of the event
Returned(i) ==
    \E k \in DOMAIN logged :
        logged[k] = [i |-> i, level |-> "INFO", msg |-> "Indexed log records successfully"]

\* the index of the month of a date yyyy-mm-dd
MonthIndex(date) == <<"d", "w", "-", "l", "o", "g", "s", "-">> \o SubSeq(date, 1, 7)

\* the action expected for a log record
IndexAction(rec) ==
    [_op_type |-> "index", _index |-> MonthIndex(rec.date), _id |-> rec.id_,
     _source |-> rec.data]

\* the actions are those of the first records of the content, in its order
SubmittedInOrder(actions, content) ==
    /\ Len(actions) <= Len(content)
    /\ \A k \in DOMAIN actions : actions[k] = IndexAction(content[k])

\* every call holds records of one date, and the next call starts with another
MaximalRuns(calls) ==
    /\ \A c \in DOMAIN calls :
          /\ calls[c].actions # <<>>
          /\ \A k \in DOMAIN calls[c].actions :
                calls[c].actions[k]._source.date = calls[c].actions[1]._source.date
    /\ \A c \in 1..(Len(calls) - 1) :
          calls[c].actions[1]._source.date # calls[c + 1].actions[1]._source.date

\* the bulk calls end with a run of the content: the record after the last
\* submitted one has another date
WholeRuns(actions, content) ==
    (actions # <<>> /\ Len(actions) < Len(content)) =>
        content[Len(actions)].date # content[Len(actions) + 1].date

LogKey(object_key) ==
    /\ \/ Len(object_key) >= 6 /\ SubSeq(object_key, 1, 6) = <<"_", "l", "o", "g", "s", "/">>
       \/ \E k \in 1..(Len(object_key) - 5) :
             SubSeq(object_key, k, k + 5) = <<"/", "l", "o", "g", "s", "/">>
    /\ Len(object_key) >= 3
    /\ SubSeq(object_key, Len(object_key) - 2, Len(object_key)) = <<".", "g", "z">>
    /\ \E k \in 1..(Len(object_key) - 5) :
          Lower(SubSeq(object_key, k, k + 5)) = <<"s", "t", "d", "e", "r", "r">>

\* the messages logged for record i of the event
LoggedFor(i) == {logged[k].msg : k \in {j \in DOMAIN logged : logged[j].i = i}}

\* C30: the records of an event are handled one after the other; a record
\* whose key is not that of a log file is skipped: nothing is loaded, no
\* connection is made and no bulk call; an error of the generator while the
\* records are indexed (NoRecordsFoundError, ClientError) is logged and never
\* ends the handler, which returns only after the last record.
C30_RecordsIndependent ==
    /\ \A i \in DOMAIN event_records :
          /\ i < event_i => LoggedFor(i) # {}
          /\ ~LogKey(event_records[i].key) =>
                /\ LoggedFor(i) \subseteq {"Object is not a log file"}
                /\ CallsOf(i) = <<>>
                /\ i = event_i => handler \in {"loop", "returned"}
          /\ i > event_i => LoggedFor(i) = {} /\ CallsOf(i) = <<>>
    /\ \A k \in 1..(Len(logged) - 1) : logged[k].i <= logged[k + 1].i
    /\ handler = "returned" => event_i = Len(event_records) + 1
    /\ handler = "raised" =>
          /\ handler_exc # "NoRecordsFoundError"
          /\ handler_exc = "ClientError" => conn_error = "ClientError"

\* the generator raised for the first record, the second record was indexed
C30_Witness ==
    /\ handler = "returned"
    /\ Len(event_records) = 2
    /\ LoggedFor(1) \cap {"Error code", "Failed to find log records"} # {}
    /\ CallsOf(2) # <<>>
    /\ Returned(2)

----------------------------------------------------------------------------
(* Properties of json_logging                                               *)

\* the predefined fields of the logging context
Predefined ==
    {"aws_request_id", "correlation_id", "function_name", "function_version",
     "invoked_function_arn", "log_group_name", "log_stream_name", "request_id"}

\* C21: update_context raises ValueError exactly when one of its keywords is
\* no predefined field, and whatever calls of update_context and of
\* update_from_lambda_context were made, the fields of the context are the
\* predefined ones: none is added, none is removed.
C21_FieldsFixed ==
    /\ DOMAIN context = Predefined
    /\ op = "update_context" =>
          ((\E k \in DOMAIN kwargs : kwargs[k].field \notin Predefined)
               <=> raised = "ValueError")

\* update_context(request_id=..., bogus=...) raised
C21_Witness ==
    /\ op = "update_context"
    /\ raised = "ValueError"
    /\ Len(kwargs) = 2
    /\ kwargs[1].field = "request_id"
    /\ kwargs[2].field = "bogus"
    /\ DOMAIN context = Predefined

\* the name a context field has in the output of the formatter
OutputName(f) ==
    CASE f = "function_name" -> "lambda.function_name"
      [] f = "function_version" -> "lambda.function_version"
      [] f = "invoked_function_arn" -> "lambda.invoked_function_arn"
      [] f = "log_group_name" -> "cwl.log_group_name"
      [] f = "log_stream_name" -> "cwl.log_stream_name"
      [] OTHER -> f

\* a log record was emitted in the call in progress
Emitted == emitted # NoEmit

\* the output is a JSON object with the given value under the given key
Carries(key, value) ==
    /\ output.kind = "object"
    /\ key \in DOMAIN output.obj
    /\ output.obj[key] = value

\* the output has nothing under the given key
Lacks(key) == output.kind = "object" /\ key \notin DOMAIN output.obj

\* the names of the extra fields of the emitted record
ExtraNames == {emitted.extra[k].attr : k \in DOMAIN emitted.extra}

ClockOf == emitted.call[Len(emitted.call)]

\* C23: with the default output fields the output of format is an object
\* with elapsed_ms, gmtime, log_level, message and timestamp, none of them
\* null, and they are the formatter's own: the formatted message, the level
\* of the record, the time of creation and the time elapsed, whatever the
\* extra and the context of the record.
C23_FormattersOwn ==
    (op = "log" /\ output_fields.is_none) =>
        /\ output.kind = "object"
        /\ {"elapsed_ms", "gmtime", "log_level", "message", "timestamp"}
               \subseteq DOMAIN output.obj
        /\ \A key \in {"elapsed_ms", "gmtime", "log_level", "message", "timestamp"} :
              output.obj[key] # None
        /\ output.obj["message"] = Str(emitted.call[1].text)
        /\ output.obj["log_level"] = Str(emitted.call[2].levelname)
        /\ output.obj["timestamp"] = [t |-> "int", s |-> <<>>, n |-> ClockOf.millis]
        /\ output.obj["gmtime"] = Str(ClockOf.iso)
        /\ output.obj["elapsed_ms"] = IntValue(ClockOf.elapsed)

\* C27: when the body of a with log_stack_trace statement raises, one ERROR
\* record with the stack trace is logged and the exception leaves the
\* statement; when the body returns, nothing is logged.
C27_StackTraceLogged ==
    op = "log_stack_trace" =>
        IF raised # ""
        THEN /\ n_logged = 1
             /\ propagated = raised
             /\ AttributeOf(emitted.rec.dict, "levelname") = Str(<<"E", "R", "R", "O", "R">>)
             /\ "stack_trace" \in ExtraNames
             /\ output_fields.is_none => "stack_trace" \in DOMAIN output.obj
        ELSE /\ n_logged = 0
             /\ propagated = ""
             /\ ~Emitted
             /\ output = NoOutput

\* the body raised RuntimeError
C27_Witness ==
    /\ op = "log_stack_trace"
    /\ raised = "RuntimeError"
    /\ propagated = "RuntimeError"
    /\ n_logged = 1
    /\ Carries("log_level", Str(<<"E", "R", "R", "O", "R">>))

\* C28: a call of update_context that raises ValueError leaves the context as
\* it was before the call.
C28_AllOrNothing ==
    (op = "update_context" /\ raised = "ValueError") => context = before

----------------------------------------------------------------------------
(* Properties of the backfill driver and of the index tool                  *)

\* the number of calls of invoke_log_parser in progress
InProgress == Cardinality({k \in DOMAIN futures : futures[k] = "running"})

\* the number of invocations of the Lambda function for the object of call k
InvokedFor(k) ==
    Cardinality({j \in DOMAIN invocations : invocations[j] = object_keys[k].s})

\* C24: for any number of listed objects main ends by returning; never are
\* more than max_threads calls in progress; when main returns every call is
\* over and the log parser has been invoked once for every listed object.
C24_OneInvocationPerObject ==
    /\ InProgress <= max_threads
    /\ driver # "raised"
    /\ driver = "returned" =>
          \A k \in DOMAIN object_keys :
              /\ futures[k] \notin {"pending", "running"}
              /\ InvokedFor(k) = 1

\* the date of a day (days since 1970-01-01) as yyyy-mm-dd
DateOfDay(day) ==
    Decimal(CivilFromDays(day)[1], 4) \o <<"-">> \o Decimal(CivilFromDays(day)[2], 2)
        \o <<"-">> \o Decimal(CivilFromDays(day)[3], 2)

\* the index names of a day and of each of the 379 days before it
Allowable(day) == {MonthIndex(DateOfDay(d)) : d \in (day - 379)..day}

\* the operator's line is y or yes, in any letter case
SaysYes ==
    /\ ~answer.eof
    /\ \/ Len(answer.line) = 1 /\ answer.line[1] \in {"y", "Y"}
       \/ /\ Len(answer.line) = 3
          /\ answer.line[1] \in {"y", "Y"}
          /\ answer.line[2] \in {"e", "E"}
          /\ answer.line[3] \in {"s", "S"}

============================================================================
